---- MODULE Spec2Model ----
(***************************************************************************)
(* A model of the usrs macOS backend's asynchronous transfer machinery:    *)
(* blocking and non-blocking control/bulk submissions, the leak/unleak     *)
(* packaging of completion callbacks, the per-device event-loop thread     *)
(* with its termination flag, and the callback-to-future adapter.          *)
(*                                                                         *)
(* Spec / FairSpec model one opened device, its caller thread, the OS and  *)
(* the event-loop thread.  FutureSpec / FutureFairSpec model one UsbFuture *)
(* shared between a polling task and the completing callback.              *)
(* TransferSpec models the caller thread alone with the blocking           *)
(* transfers.  HostSpec / HostFairSpec model enumeration and the opening   *)
(* of a device, ClaimSpec the claiming of an opened device's interfaces,   *)
(* OpenedSpec every operation on an opened device, LifeSpec the opening of *)
(* one device followed by the operations on it.  PureSpec applies the      *)
(* functions that keep no state: selectors, the host's device search, and  *)
(* the timeout and request-type conversions.                               *)
(***************************************************************************)
EXTENDS Integers, Sequences, FiniteSets, TLC

(***************************************************************************)
(* Bounds of the model and program constants.                              *)
(***************************************************************************)
\* Number of non-blocking requests the caller may submit.
MaxReq == 2

\* Saturation point of the history counter of slices started after the flag.
SliceCap == 3

\* Number of distinct wakers (task contexts) a future may be polled with.
MaxWakers == 2

\* Number of times the executor re-polls a parked task without a wake.
MaxSpurious == 2

\* Number of polls made after the future returned Ready or panicked.
MaxRepolls == 2

\* Number of claims OpenedSpec leaves outstanding between unclaims.
MaxOpenedClaims == 1

\* A byte count a completed transfer may report (a device descriptor).
SomeLength == 18

\* u16::MAX, the largest wLength of a control request.
U16_MAX == 65535

\* The direction bit that address_for_in_endpoint sets.
IN_BIT == 128

Requests == 1..MaxReq

\* Buffer lengths handed to the transfer calls: empty, the largest legal
\* control length, the first illegal one, and one that `as u16` maps to 0.
Lengths == {0, U16_MAX, U16_MAX + 1, 2 * (U16_MAX + 1)}

\* Endpoint arguments (numbers or full addresses) a caller may pass.
EndpointArgs == {1, 2, IN_BIT + 1}

(***************************************************************************)
(* Error taxonomy and IOReturn translation.                                *)
(***************************************************************************)
Ok(n) == [ok |-> TRUE, value |-> n, kind |-> "None", code |-> "None"]
Err(k) == [ok |-> FALSE, value |-> 0, kind |-> k, code |-> "None"]
OsError(rc) == [ok |-> FALSE, value |-> 0, kind |-> "OsError", code |-> rc]
NoResult == [ok |-> FALSE, value |-> 0, kind |-> "NoResult", code |-> "None"]

\* The IOKit return codes the OS model draws from.
SubmitCodes == {"kIOReturnSuccess", "kIOReturnNotOpen", "kIOReturnNoDevice"}
BlockingCodes == SubmitCodes \cup {"kIOReturnOverrun"}
CompletionCodes == {"kIOReturnSuccess", "kIOReturnAborted",
                    "kIOUSBTransactionTimeout", "kIOReturnNotResponding"}

io_return_to_error(rc) ==
    CASE rc = "kIOReturnNotOpen" -> Err("DeviceNotOpen")
      [] rc = "kIOReturnNoDevice" -> Err("DeviceNotFound")
      [] rc = "kIOReturnExclusiveAccess" -> Err("DeviceReserved")
      [] rc = "kIOReturnBadArgument" -> Err("InvalidArgument")
      [] rc = "kIOReturnAborted" -> Err("Aborted")
      [] rc = "kIOReturnOverrun" -> Err("Overrun")
      [] rc = "kIOReturnNoResources" -> Err("PermissionDenied")
      [] rc = "kIOUSBNoAsyncPortErr" -> Err("DeviceNotOpen")
      [] rc = "kIOUSBUnknownPipeErr" -> Err("InvalidEndpoint")
      [] rc = "kIOUSBPipeStalled" -> Err("Stalled")
      [] rc = "kIOUSBTransactionTimeout" -> Err("TimedOut")
      [] OTHER -> OsError(rc)

from_io_return(rc) ==
    IF rc # "kIOReturnSuccess" THEN io_return_to_error(rc) ELSE Ok(0)

\* A conversion that reports success whatever the OS status was.
from_io_return_and_value_always_ok(rc, ok_value) == Ok(ok_value)

from_io_return_and_value(rc, ok_value) ==
    IF rc # "kIOReturnSuccess" THEN io_return_to_error(rc) ELSE Ok(ok_value)

(***************************************************************************)
(* Endpoint helpers and the endpoint metadata built at open time.          *)
(***************************************************************************)
address_for_out_endpoint(number) == number

address_for_in_endpoint(number) ==
    IF number >= IN_BIT THEN number ELSE number + IN_BIT

\* One interface (number 0) with an IN endpoint 0x81 on pipe 1 and an OUT
\* endpoint 0x02 on pipe 2.
endpoint_metadata ==
    (IN_BIT + 1 :> [interface_number |-> 0, pipe_ref |-> 1]) @@
    (2 :> [interface_number |-> 0, pipe_ref |-> 2])

\* A lookup that hands out a pipe for any address.
resources_for_endpoint_unchecked(address) == Ok(1)

\* `endpoint_metadata.get(&address).ok_or(Error::InvalidEndpoint)?`
resources_for_endpoint(address) ==
    IF address \in DOMAIN endpoint_metadata
    THEN Ok(endpoint_metadata[address].pipe_ref)
    ELSE Err("InvalidEndpoint")

resources_for_in_endpoint(number) ==
    resources_for_endpoint(address_for_in_endpoint(number))

resources_for_out_endpoint(number) ==
    resources_for_endpoint(address_for_out_endpoint(number))

\* The control-length check that lets one illegal length through.
exceeds_control_length_off_by_one(len) == len > U16_MAX + 1

\* `len > (u16::MAX as usize)`
exceeds_control_length(len) == len > U16_MAX

\* `len as u16`
as_u16(len) == len % (U16_MAX + 1)

(***************************************************************************)
(* State of one opened device (Spec, FairSpec).                            *)
(***************************************************************************)
VARIABLES
    devState,          \* "open", "dropping" (MacOsDevice::drop ran), "released"
    termination_flag,  \* MacOsDevice.termination_flag
    loopPc,            \* position of the event-loop thread in run_event_loop
    slicesAfterFlag,   \* history: slices started while the flag was set
    callerPc,          \* "idle", "returning" (inside a backend call), "panicked"
    call,              \* the backend call the caller thread is executing
    submit,            \* per request: the result its submission returned
    leaks,             \* per request: leak_to_iokit calls made for its callback
    reclaims,          \* per request: unleak_from_iokit calls made on its token
    os,                \* per request: "none", "inflight", "completed", "delivered"
    osrc,              \* per request: the IOReturn the OS completed it with
    oslen,             \* per request: the byte count the OS completed it with
    cbCount,           \* per request: invocations of its completion callback
    cbThread,          \* per request: the thread that invoked the callback
    cbDevState,        \* history, per request: devState when the callback ran
    cbResult,          \* per request: the result the callback received
    oversized          \* history, per request: a control buffer above 65535 bytes

(***************************************************************************)
(* State of one UsbFuture and of the task awaiting it (FutureSpec).        *)
(***************************************************************************)
VARIABLES
    pending,           \* UsbFutureState.pending
    result,            \* UsbFutureState.result (NoResult models None)
    waker,             \* UsbFutureState.waker (0 models None)
    mutex,             \* holder of the Mutex: "free", "poll", "complete"
    poisoned,          \* the Mutex was poisoned by a panic under the lock
    pollPc,            \* position of the polling task inside UsbFuture::poll
    pollWaker,         \* the waker of the Context passed to the current poll
    pollAfterDone,     \* the current poll began after complete had returned
    completePc,        \* position of the callback inside UsbFutureState::complete
    completeArg,       \* the result the callback was invoked with
    task,              \* "runnable", "polling", "parked", "done", "panicked"
    notified,          \* a wake() reached the task and was not yet acted upon
    spurious,          \* number of re-polls scheduled without a wake
    repolls,           \* number of polls made after Ready or after a panic
    pollLog,           \* history: the outcomes of the polls, in order
    readyValue,        \* history: the value the Ready poll returned
    pendingAfterDone,  \* history: a poll begun after completion returned Pending
    lastPendingWaker,  \* history: the waker stored by the latest Pending poll
    wakeCount          \* per waker: number of wake() calls

(***************************************************************************)
(* State of the host side of the backend (HostSpec): enumeration, opening  *)
(* one device, and the interface map of the opened device.                 *)
(***************************************************************************)
VARIABLES
    hostPc,            \* "idle"; inside open: "plugin", "device", "source",
                       \* "iterator", "populate"; then "opened", "failed",
                       \* "panicked" or "crashed" (the process died);
                       \* "dropped" once the opened Device was dropped
    lastOp,            \* the backend operation that finished last
    enumIn,            \* the devices IOKit listed to the last get_devices, or
                       \* to the last open that ended in its search
    devices,           \* the locators of the Vec get_devices returned
    matched,           \* history: a listed device had the locator given to open
    skipped,           \* devices without a location ID that the last
                       \* fruitless search of open passed over
    attempts,          \* IOCreatePlugInInterfaceForService calls made by open
    sleeps,            \* 1 ms sleeps made by open
    deviceOpened,      \* OsDevice.is_open of the device built last: the OS
                       \* device is open, no successful close having followed
    threadsSpawned,    \* std::thread::spawn calls made for the event loop
    sources,           \* length of the Vec of notification sources that
                       \* open collects and moves into the event-loop thread
    ifIndex,           \* interface_index of populate_interfaces
    interfaces,        \* MacOsDevice.interfaces, per interface number
    metadata,          \* MacOsDevice.endpoint_metadata
    osOpen,            \* per interface of the device built last: the OS holds
                       \* it open (USBInterfaceOpen, no USBInterfaceClose since)
    claimOpens,        \* per interface: USBInterfaceOpen calls made by
                       \* claim_interface since the last unclaim_interface
    closeCalls,        \* per interface: USBInterfaceClose calls made
    claimsOk,          \* per interface: successful claims since the last unclaim
    unclaims,          \* history, per interface: an unclaim followed a
                       \* successful claim
    metadataFailed,    \* history: an OS call failed while populating metadata
    deniedSeen         \* history: an interface was refused with PermissionDenied

(***************************************************************************)
(* The last application of a function that keeps no state (PureSpec).      *)
(***************************************************************************)
VARIABLES
    applied            \* the function applied last, its input and its output

deviceVars == <<devState, termination_flag, loopPc, slicesAfterFlag, callerPc,
                call, submit, leaks, reclaims, os, osrc, oslen, cbCount,
                cbThread, cbDevState, cbResult, oversized>>

futureVars == <<pending, result, waker, mutex, poisoned, pollPc, pollWaker,
                pollAfterDone, completePc, completeArg, task, notified, spurious,
                repolls, pollLog, readyValue, pendingAfterDone, lastPendingWaker,
                wakeCount>>

hostVars == <<hostPc, lastOp, enumIn, devices, matched, skipped, attempts, sleeps,
              deviceOpened, threadsSpawned, sources, ifIndex, interfaces, metadata,
              osOpen,
              claimOpens, closeCalls, claimsOk, unclaims, metadataFailed,
              deniedSeen>>

\* What each specification leaves alone.
besidesDevice == <<futureVars, hostVars, applied>>
besidesFuture == <<deviceVars, hostVars, applied>>
besidesHost == <<deviceVars, futureVars, applied>>
besidesPure == <<deviceVars, futureVars, hostVars>>

vars == <<deviceVars, futureVars, hostVars, applied>>

NoCall == [op |-> "none", req |-> 0, len |-> 0, fn |-> "none", wLength |-> 0,
           result |-> NoResult]

\* The request number the next non-blocking submission uses.
NextRequest ==
    IF \E r \in Requests : submit[r] = NoResult /\ call.req # r
    THEN CHOOSE r \in Requests :
             /\ submit[r] = NoResult /\ call.req # r
             /\ \A q \in Requests : (submit[q] = NoResult /\ call.req # q) => r <= q
    ELSE 0

(***************************************************************************)
(* Callback packaging.                                                     *)
(***************************************************************************)
leak_to_iokit(m, r) == [m EXCEPT ![r] = @ + 1]

unleak_from_iokit(m, r) == [m EXCEPT ![r] = @ + 1]

\* The run loop run by the thread that opened the device instead.
event_loop_on_caller_thread == "caller"

\* The thread that std::thread::spawn gives run_event_loop; its run loop is
\* the one the notification sources are added to.
event_loop_thread == "event_loop"

(***************************************************************************)
(* Initial state: the device has just been opened; open has spawned the    *)
(* event-loop thread, which has not yet entered its run loop.              *)
(***************************************************************************)
DeviceInit ==
    /\ devState = "open"
    /\ termination_flag = FALSE
    /\ loopPc = "spawned"
    /\ slicesAfterFlag = 0
    /\ callerPc = "idle"
    /\ call = NoCall
    /\ submit = [r \in Requests |-> NoResult]
    /\ leaks = [r \in Requests |-> 0]
    /\ reclaims = [r \in Requests |-> 0]
    /\ os = [r \in Requests |-> "none"]
    /\ osrc = [r \in Requests |-> "none"]
    /\ oslen = [r \in Requests |-> 0]
    /\ cbCount = [r \in Requests |-> 0]
    /\ cbThread = [r \in Requests |-> "none"]
    /\ cbDevState = [r \in Requests |-> "none"]
    /\ cbResult = [r \in Requests |-> NoResult]
    /\ oversized = [r \in Requests |-> FALSE]

requestVars == <<submit, leaks, reclaims, os, osrc, oslen, cbCount, cbThread, cbDevState,
                 cbResult, oversized>>

loopVars == <<loopPc, slicesAfterFlag>>

\* Every backend call borrows the Device; drop takes it by value.
CanCall == devState = "open" /\ callerPc = "idle"

\* The Device can be dropped while no backend call borrows it: by its owner
\* between two calls, or by the unwinding of the panic that ended a call.
CanDrop == devState = "open" /\ callerPc \in {"idle", "panicked"}

(***************************************************************************)
(* Blocking control transfers (caller thread).                             *)
(***************************************************************************)
\* MacOsBackend::control: what the OS call returns for a request of `length`
\* bytes when the OS answers `rc` having moved `done` bytes.
control(length, has_timeout, rc, done) ==
    [fn |-> IF has_timeout THEN "DeviceRequestTO" ELSE "DeviceRequest",
     wLength |-> length,
     result |-> IF from_io_return(rc).ok THEN Ok(done) ELSE from_io_return(rc)]

control_read(len, has_timeout, rc, done) ==
    /\ CanCall
    /\ callerPc' = "returning"
    /\ IF exceeds_control_length(len)
       THEN call' = [op |-> "control_read", req |-> 0, len |-> len,
                     fn |-> "none", wLength |-> 0, result |-> Err("Overrun")]
       ELSE LET c == control(as_u16(len), has_timeout, rc, done)
            IN call' = [op |-> "control_read", req |-> 0, len |-> len,
                        fn |-> c.fn, wLength |-> c.wLength, result |-> c.result]
    /\ UNCHANGED <<devState, termination_flag, loopVars, requestVars>>
    /\ UNCHANGED besidesDevice

control_write(len, has_timeout, rc, done) ==
    /\ CanCall
    /\ callerPc' = "returning"
    /\ IF exceeds_control_length(len)
       THEN call' = [op |-> "control_write", req |-> 0, len |-> len,
                     fn |-> "none", wLength |-> 0, result |-> Err("Overrun")]
       ELSE LET c == control(as_u16(len), has_timeout, rc, done)
            IN call' = [op |-> "control_write", req |-> 0, len |-> len,
                        fn |-> c.fn, wLength |-> c.wLength,
                        result |-> IF c.result.ok THEN Ok(0) ELSE c.result]
    /\ UNCHANGED <<devState, termination_flag, loopVars, requestVars>>
    /\ UNCHANGED besidesDevice

(***************************************************************************)
(* Blocking bulk transfers and clear_stall (caller thread).  The endpoint  *)
(* is looked up first; a failed lookup returns before any OS call.         *)
(***************************************************************************)
\* What a blocking call that got as far as the OS function `fn` returns.
blocking_call(op, len, fn, rc, value) ==
    [op |-> op, req |-> 0, len |-> len, fn |-> fn, wLength |-> len,
     result |-> IF from_io_return(rc).ok THEN Ok(value) ELSE from_io_return(rc)]

\* A blocking call that returns the endpoint lookup's error.
lookup_failed(op, len, error) ==
    [op |-> op, req |-> 0, len |-> len, fn |-> "none", wLength |-> 0,
     result |-> error]

read(endpoint, len, has_timeout, rc, done) ==
    /\ CanCall
    /\ callerPc' = "returning"
    /\ call' = IF ~resources_for_in_endpoint(endpoint).ok
               THEN lookup_failed("read", len, resources_for_in_endpoint(endpoint))
               ELSE blocking_call("read", len,
                                  IF has_timeout THEN "ReadPipeTO" ELSE "ReadPipe",
                                  rc, done)
    /\ UNCHANGED <<devState, termination_flag, loopVars, requestVars>>
    /\ UNCHANGED besidesDevice

write(endpoint, len, has_timeout, rc) ==
    /\ CanCall
    /\ callerPc' = "returning"
    /\ call' = IF ~resources_for_out_endpoint(endpoint).ok
               THEN lookup_failed("write", len, resources_for_out_endpoint(endpoint))
               ELSE blocking_call("write", len,
                                  IF has_timeout THEN "WritePipeTO" ELSE "WritePipe",
                                  rc, 0)
    /\ UNCHANGED <<devState, termination_flag, loopVars, requestVars>>
    /\ UNCHANGED besidesDevice

clear_stall(endpoint_address, rc) ==
    /\ CanCall
    /\ callerPc' = "returning"
    /\ call' = IF ~resources_for_endpoint(endpoint_address).ok
               THEN lookup_failed("clear_stall", endpoint_address,
                                  resources_for_endpoint(endpoint_address))
               ELSE blocking_call("clear_stall", endpoint_address,
                                  "ClearPipeStall", rc, 0)
    /\ UNCHANGED <<devState, termination_flag, loopVars, requestVars>>
    /\ UNCHANGED besidesDevice

(***************************************************************************)
(* Non-blocking submissions (caller thread).  The token is created by      *)
(* leak_to_iokit while the arguments of the OS call are evaluated; the OS  *)
(* then accepts the request (rc = success) or rejects it.                  *)
(***************************************************************************)
\* An OS call that queues the request although it answers an error.
os_accepts_with_error(rc) == TRUE

\* The OS has queued the request when its async function answers
\* kIOReturnSuccess; with any other answer it has not taken it.
os_accepts(rc) == rc = "kIOReturnSuccess"

\* The hand-over of request r to the OS async function `fn`.
submit_to_os(r, op, len, fn, wLength, rc) ==
    /\ leaks' = leak_to_iokit(leaks, r)
    /\ os' = IF os_accepts(rc) THEN [os EXCEPT ![r] = "inflight"] ELSE os
    /\ call' = [op |-> op, req |-> r, len |-> len, fn |-> fn,
                wLength |-> wLength, result |-> from_io_return(rc)]

\* A submission that fails before anything is packaged or handed over.
fail_fast(r, op, len, error) ==
    /\ call' = [op |-> op, req |-> r, len |-> len, fn |-> "none",
                wLength |-> 0, result |-> error]
    /\ UNCHANGED <<leaks, os>>

\* `(*buffer).borrow_mut()` while the caller still holds a borrow of the
\* RefCell: the call panics ("already borrowed").  Nothing was packaged or
\* handed to the OS, the callback is dropped uninvoked, and the call does
\* not return.
already_borrowed(r, op, len) ==
    /\ call' = [op |-> op, req |-> r, len |-> len, fn |-> "none",
                wLength |-> 0, result |-> Err("panic")]
    /\ UNCHANGED <<leaks, os>>

control_nonblocking(r, op, len, has_timeout, rc) ==
    submit_to_os(r, op, len,
                 IF has_timeout THEN "DeviceRequestAsyncTO" ELSE "DeviceRequestAsync",
                 as_u16(len), rc)

\* `borrowed`: the caller still holds a borrow of the read buffer it passes.
control_read_nonblocking(len, has_timeout, rc, borrowed) ==
    /\ CanCall
    /\ NextRequest # 0
    /\ callerPc' = IF borrowed THEN "panicked" ELSE "returning"
    /\ oversized' = IF borrowed THEN oversized
                    ELSE [oversized EXCEPT ![NextRequest] = len > 65535]
    /\ IF borrowed
       THEN already_borrowed(NextRequest, "control_read_nonblocking", len)
       ELSE IF exceeds_control_length(len)
       THEN fail_fast(NextRequest, "control_read_nonblocking", len, Err("Overrun"))
       ELSE control_nonblocking(NextRequest, "control_read_nonblocking", len,
                                has_timeout, rc)
    /\ UNCHANGED <<devState, termination_flag, loopVars, submit, reclaims, osrc,
                   oslen, cbCount, cbThread, cbDevState, cbResult>>
    /\ UNCHANGED besidesDevice

control_write_nonblocking(len, has_timeout, rc) ==
    /\ CanCall
    /\ NextRequest # 0
    /\ callerPc' = "returning"
    /\ oversized' = [oversized EXCEPT ![NextRequest] = len > 65535]
    /\ IF exceeds_control_length(len)
       THEN fail_fast(NextRequest, "control_write_nonblocking", len, Err("Overrun"))
       ELSE control_nonblocking(NextRequest, "control_write_nonblocking", len,
                                has_timeout, rc)
    /\ UNCHANGED <<devState, termination_flag, loopVars, submit, reclaims, osrc,
                   oslen, cbCount, cbThread, cbDevState, cbResult>>
    /\ UNCHANGED besidesDevice

\* `borrowed`: the caller still holds a borrow of the read buffer it passes;
\* the buffer is borrowed after the endpoint lookup.
read_nonblocking(endpoint, len, has_timeout, rc, borrowed) ==
    /\ CanCall
    /\ NextRequest # 0
    /\ callerPc' = IF resources_for_in_endpoint(endpoint).ok /\ borrowed
                   THEN "panicked" ELSE "returning"
    /\ IF ~resources_for_in_endpoint(endpoint).ok
       THEN fail_fast(NextRequest, "read_nonblocking", len,
                      resources_for_in_endpoint(endpoint))
       ELSE IF borrowed
       THEN already_borrowed(NextRequest, "read_nonblocking", len)
       ELSE submit_to_os(NextRequest, "read_nonblocking", len,
                         IF has_timeout THEN "ReadPipeAsyncTO" ELSE "ReadPipeAsync",
                         len, rc)
    /\ UNCHANGED <<devState, termination_flag, loopVars, submit, reclaims, osrc,
                   oslen, cbCount, cbThread, cbDevState, cbResult, oversized>>
    /\ UNCHANGED besidesDevice

write_nonblocking(endpoint, len, has_timeout, rc) ==
    /\ CanCall
    /\ NextRequest # 0
    /\ callerPc' = "returning"
    /\ IF ~resources_for_out_endpoint(endpoint).ok
       THEN fail_fast(NextRequest, "write_nonblocking", len,
                      resources_for_out_endpoint(endpoint))
       ELSE submit_to_os(NextRequest, "write_nonblocking", len,
                         IF has_timeout THEN "WritePipeAsyncTO" ELSE "WritePipeAsync",
                         len, rc)
    /\ UNCHANGED <<devState, termination_flag, loopVars, submit, reclaims, osrc,
                   oslen, cbCount, cbThread, cbDevState, cbResult, oversized>>
    /\ UNCHANGED besidesDevice

\* The buffer of request r is a parameter of the non-blocking backend call
\* (the Arc, and for reads the RefMut taken from it with borrow_mut): the
\* backend holds both from the call until the call returns, when its locals
\* are dropped.
backend_holds_buffer(r) == callerPc = "returning" /\ call.req = r

\* The OS has the raw pointer from its acceptance of the request until the
\* completion has been handed to the callback.
os_holds_pointer(r) == os[r] \in {"inflight", "completed"}

\* An async form that hands out its future whatever the submission returned.
async_form_always_future(submission) == [future |-> TRUE, result |-> Ok(0)]

\* Device::control_read_async, read_async and their write forms: the future
\* and the completing callback are built, `backend.*_nonblocking(...)?`
\* returns the submission's error, and `Ok(future)` is reached otherwise.
async_form(submission) ==
    IF ~submission.ok THEN [future |-> FALSE, result |-> submission]
    ELSE [future |-> TRUE, result |-> Ok(0)]

\* The panic has left the backend call (`borrowed` was the only thing it
\* looked at): a caller that catches the unwinding goes on with the Device,
\* which the call has left as it was.
Unwound ==
    /\ callerPc = "panicked"
    /\ callerPc' = "idle"
    /\ call' = NoCall
    /\ UNCHANGED <<devState, termination_flag, loopVars, requestVars>>
    /\ UNCHANGED besidesDevice

\* The backend call returns to its caller; a submission's result is recorded.
Return ==
    /\ callerPc = "returning"
    /\ callerPc' = "idle"
    /\ call' = NoCall
    /\ submit' = IF call.req # 0 THEN [submit EXCEPT ![call.req] = call.result]
                 ELSE submit
    /\ UNCHANGED <<devState, termination_flag, loopVars, leaks, reclaims, os,
                   osrc, oslen, cbCount, cbThread, cbDevState, cbResult>>
    /\ UNCHANGED <<oversized, besidesDevice>>

(***************************************************************************)
(* Destruction of the device (caller thread; no call can be in progress,   *)
(* since every call borrows the Device): the owner drops it, or a panic    *)
(* that ended a call unwinds through the owner.                            *)
(***************************************************************************)
\* A drop that forgets to signal the event-loop thread.
drop_without_signal(flag) == flag

\* impl Drop for MacOsDevice: termination_flag.store(true).
drop_MacOsDevice(flag) == TRUE

DropDevice ==
    /\ CanDrop
    /\ devState' = "dropping"
    /\ termination_flag' = drop_MacOsDevice(termination_flag)
    /\ UNCHANGED <<loopVars, callerPc, call, requestVars>>
    /\ UNCHANGED besidesDevice

\* The fields are dropped after Drop::drop: the OS device and interfaces
\* are closed and released.
ReleaseFields ==
    /\ devState = "dropping"
    /\ devState' = "released"
    /\ UNCHANGED <<termination_flag, loopVars, callerPc, call, requestVars>>
    /\ UNCHANGED besidesDevice

(***************************************************************************)
(* The OS: an accepted request completes once, with some status and byte   *)
(* count; the completion waits on the notification source until the run    *)
(* loop dispatches it.                                                     *)
(***************************************************************************)
OsComplete(r, rc, done) ==
    /\ os[r] = "inflight"
    /\ os' = [os EXCEPT ![r] = "completed"]
    /\ osrc' = [osrc EXCEPT ![r] = rc]
    /\ oslen' = [oslen EXCEPT ![r] = IF rc = "kIOReturnSuccess" THEN done ELSE 0]
    /\ UNCHANGED <<devState, termination_flag, loopVars, callerPc, call, submit,
                   leaks, reclaims, cbCount, cbThread, cbDevState, cbResult>>
    /\ UNCHANGED <<oversized, besidesDevice>>

(***************************************************************************)
(* The event-loop thread: NotificationSource::run_event_loop.              *)
(***************************************************************************)
\* CFRunLoopAddSource for every source, then the first slice begins.
run_event_loop_begin ==
    /\ loopPc = "spawned"
    /\ loopPc' = "slice"
    /\ slicesAfterFlag' = IF termination_flag /\ slicesAfterFlag < SliceCap
                          THEN slicesAfterFlag + 1 ELSE slicesAfterFlag
    /\ UNCHANGED <<devState, termination_flag, callerPc, call, requestVars>>
    /\ UNCHANGED besidesDevice

\* The trampoline reclaiming the token twice.
delegate_reclaim_twice(m, r) == unleak_from_iokit(unleak_from_iokit(m, r), r)

\* The trampoline's recovery of the packaged callback.
delegate_reclaim(m, r) == unleak_from_iokit(m, r)

\* `callback(...)`: the FnOnce is consumed by its one invocation.
invoke_callback(m, r) == [m EXCEPT ![r] = @ + 1]

\* delegate_iousb_callback, run by the run loop of `thread` during a slice
\* for a completion waiting on a notification source.
delegate_iousb_callback(r, thread) ==
    /\ loopPc = "slice"
    /\ os[r] = "completed"
    /\ os' = [os EXCEPT ![r] = "delivered"]
    /\ reclaims' = delegate_reclaim(reclaims, r)
    /\ cbCount' = invoke_callback(cbCount, r)
    /\ cbThread' = [cbThread EXCEPT ![r] = thread]
    /\ cbDevState' = [cbDevState EXCEPT ![r] = devState]
    /\ cbResult' = [cbResult EXCEPT ![r] = from_io_return_and_value(osrc[r], oslen[r])]
    /\ UNCHANGED <<devState, termination_flag, loopVars, callerPc, call, submit,
                   leaks, osrc, oslen>>
    /\ UNCHANGED <<oversized, besidesDevice>>

\* CFRunLoopRunInMode returns when the slice (RUNLOOP_STOP_GRANULARITY) is over.
SliceEnd ==
    /\ loopPc = "slice"
    /\ loopPc' = "check"
    /\ UNCHANGED <<devState, termination_flag, slicesAfterFlag, callerPc, call,
                   requestVars>>
    /\ UNCHANGED besidesDevice

\* A check that never sees the flag.
check_ignoring_flag(flag) == "between"

\* `if termination_flag.load(Relaxed) { return Ok(()) }`
check_termination(flag) == IF flag THEN "exited" ELSE "between"

CheckFlag ==
    /\ loopPc = "check"
    /\ loopPc' = check_termination(termination_flag)
    /\ UNCHANGED <<devState, termination_flag, slicesAfterFlag, callerPc, call,
                   requestVars>>
    /\ UNCHANGED besidesDevice

\* The `loop` goes round: the next CFRunLoopRunInMode slice begins.
StartSlice ==
    /\ loopPc = "between"
    /\ loopPc' = "slice"
    /\ slicesAfterFlag' = IF termination_flag /\ slicesAfterFlag < SliceCap
                          THEN slicesAfterFlag + 1 ELSE slicesAfterFlag
    /\ UNCHANGED <<devState, termination_flag, callerPc, call, requestVars>>
    /\ UNCHANGED besidesDevice

(***************************************************************************)
(* The future adapter (FutureSpec): UsbFutureState, UsbFuture::poll and    *)
(* the callback of the *_async methods, which locks the shared state and   *)
(* calls complete.  Both run with the Mutex held from lock() to return.    *)
(***************************************************************************)
Wakers == 1..MaxWakers

\* The results a completion callback can be handed by the trampoline.
CallbackResults ==
    {from_io_return_and_value(rc, n) : rc \in CompletionCodes, n \in {0, SomeLength}}

\* UsbFuture::new / UsbFutureState::new, before the first poll.
FutureInit ==
    /\ pending = TRUE
    /\ result = NoResult
    /\ waker = 0
    /\ mutex = "free"
    /\ poisoned = FALSE
    /\ pollPc = "idle"
    /\ pollWaker = 0
    /\ pollAfterDone = FALSE
    /\ completePc = "idle"
    /\ completeArg = NoResult
    /\ task = "runnable"
    /\ notified = FALSE
    /\ spurious = 0
    /\ repolls = 0
    /\ pollLog = <<>>
    /\ readyValue = NoResult
    /\ pendingAfterDone = FALSE
    /\ lastPendingWaker = 0
    /\ wakeCount = [w \in Wakers |-> 0]

\* A lock that excludes nobody.
mutex_never_blocks(m) == TRUE

\* Mutex::lock returns once no other thread holds the lock.
mutex_available(m) == m = "free"

ReadyPolls == {i \in DOMAIN pollLog : pollLog[i] = "Ready"}

\* The executor polls the runnable task with the waker of its context.
PollBegin(w) ==
    /\ task = "runnable"
    /\ pollPc = "idle"
    /\ task' = "polling"
    /\ pollPc' = "lock"
    /\ pollWaker' = w
    /\ pollAfterDone' = (completePc = "done")
    /\ UNCHANGED <<pending, result, waker, mutex, poisoned, completePc,
                   completeArg, notified, spurious, repolls, pollLog, readyValue,
                   pendingAfterDone, lastPendingWaker, wakeCount>>
    /\ UNCHANGED besidesFuture

\* The future is polled again although it returned Ready (or panicked).
PollAgain(w) ==
    /\ task \in {"done", "panicked"}
    /\ pollPc = "idle"
    /\ repolls < MaxRepolls
    /\ repolls' = repolls + 1
    /\ task' = "polling"
    /\ pollPc' = "lock"
    /\ pollWaker' = w
    /\ pollAfterDone' = (completePc = "done")
    /\ UNCHANGED <<pending, result, waker, mutex, poisoned, completePc,
                   completeArg, notified, spurious, pollLog, readyValue,
                   pendingAfterDone, lastPendingWaker, wakeCount>>
    /\ UNCHANGED besidesFuture

\* `self.state.lock().unwrap()`: a poisoned lock panics.
PollLock ==
    /\ pollPc = "lock"
    /\ mutex_available(mutex)
    /\ IF poisoned
       THEN /\ pollPc' = "idle"
            /\ task' = "panicked"
            /\ pollLog' = Append(pollLog, "Panic")
            /\ UNCHANGED mutex
       ELSE /\ pollPc' = "locked"
            /\ mutex' = "poll"
            /\ UNCHANGED <<task, pollLog>>
    /\ UNCHANGED <<pending, result, waker, poisoned, pollWaker, pollAfterDone,
                   completePc, completeArg, notified, spurious, repolls,
                   readyValue, pendingAfterDone, lastPendingWaker, wakeCount>>
    /\ UNCHANGED besidesFuture

\* `if state.pending`
PollCheck ==
    /\ pollPc = "locked"
    /\ pollPc' = IF pending THEN "store_waker" ELSE "take_result"
    /\ UNCHANGED <<pending, result, waker, mutex, poisoned, pollWaker,
                   pollAfterDone, completePc, completeArg, task, notified,
                   spurious, repolls, pollLog, readyValue, pendingAfterDone,
                   lastPendingWaker, wakeCount>>
    /\ UNCHANGED besidesFuture

\* `state.waker = Some(cx.waker().clone()); Poll::Pending`
PollStoreWaker ==
    /\ pollPc = "store_waker"
    /\ waker' = pollWaker
    /\ lastPendingWaker' = pollWaker
    /\ pendingAfterDone' = (pendingAfterDone \/ pollAfterDone)
    /\ pollLog' = Append(pollLog, "Pending")
    /\ mutex' = "free"
    /\ pollPc' = "idle"
    /\ task' = "parked"
    /\ UNCHANGED <<pending, result, poisoned, pollWaker, pollAfterDone,
                   completePc, completeArg, notified, spurious, repolls,
                   readyValue, wakeCount>>
    /\ UNCHANGED besidesFuture

\* A poll that copies the result and leaves it in place.
peek_result(res) == res

\* What `state.result.take()` leaves behind.
take_result(res) == NoResult

\* `Poll::Ready(state.result.take().expect(..))`: the panic unwinds with the
\* guard alive, which poisons the Mutex.
PollTake ==
    /\ pollPc = "take_result"
    /\ IF result # NoResult
       THEN /\ pollLog' = Append(pollLog, "Ready")
            /\ readyValue' = result
            /\ result' = take_result(result)
            /\ task' = "done"
            /\ UNCHANGED poisoned
       ELSE /\ pollLog' = Append(pollLog, "Panic")
            /\ poisoned' = TRUE
            /\ task' = "panicked"
            /\ UNCHANGED <<result, readyValue>>
    /\ mutex' = "free"
    /\ pollPc' = "idle"
    /\ UNCHANGED <<pending, waker, pollWaker, pollAfterDone, completePc,
                   completeArg, notified, spurious, repolls, pendingAfterDone,
                   lastPendingWaker, wakeCount>>
    /\ UNCHANGED besidesFuture

\* The executor runs a parked task again once its waker was invoked.
Schedule ==
    /\ task = "parked"
    /\ notified
    /\ task' = "runnable"
    /\ notified' = FALSE
    /\ UNCHANGED <<pending, result, waker, mutex, poisoned, pollPc, pollWaker,
                   pollAfterDone, completePc, completeArg, spurious, repolls,
                   pollLog, readyValue, pendingAfterDone, lastPendingWaker,
                   wakeCount>>
    /\ UNCHANGED besidesFuture

\* The executor polls a parked task although nothing woke it.
SpuriousSchedule ==
    /\ task = "parked"
    /\ spurious < MaxSpurious
    /\ spurious' = spurious + 1
    /\ task' = "runnable"
    /\ UNCHANGED <<pending, result, waker, mutex, poisoned, pollPc, pollWaker,
                   pollAfterDone, completePc, completeArg, notified, repolls,
                   pollLog, readyValue, pendingAfterDone, lastPendingWaker,
                   wakeCount>>
    /\ UNCHANGED besidesFuture

\* The trampoline invokes the callback of the *_async method, once.
CompleteBegin(res) ==
    /\ completePc = "idle"
    /\ completePc' = "lock"
    /\ completeArg' = res
    /\ UNCHANGED <<pending, result, waker, mutex, poisoned, pollPc, pollWaker,
                   pollAfterDone, task, notified, spurious, repolls, pollLog,
                   readyValue, pendingAfterDone, lastPendingWaker, wakeCount>>
    /\ UNCHANGED besidesFuture

\* `shared_state.lock().unwrap()`
CompleteLock ==
    /\ completePc = "lock"
    /\ mutex_available(mutex)
    /\ IF poisoned
       THEN completePc' = "panicked" /\ UNCHANGED mutex
       ELSE completePc' = "locked" /\ mutex' = "complete"
    /\ UNCHANGED <<pending, result, waker, poisoned, pollPc, pollWaker,
                   pollAfterDone, completeArg, task, notified, spurious, repolls,
                   pollLog, readyValue, pendingAfterDone, lastPendingWaker,
                   wakeCount>>
    /\ UNCHANGED besidesFuture

\* A completion that leaves the pending flag as it was.
complete_keeps_pending(p) == p

\* `self.pending = false`
complete_pending(p) == FALSE

\* A completion that clears the flag and stores no result.
result_not_stored(res) == NoResult

\* `self.result = Some(result)`
store_result(res) == res

\* `self.result = Some(result); self.pending = false;`
CompleteStore ==
    /\ completePc = "locked"
    /\ result' = store_result(completeArg)
    /\ pending' = complete_pending(pending)
    /\ completePc' = "stored"
    /\ UNCHANGED <<waker, mutex, poisoned, pollPc, pollWaker, pollAfterDone,
                   completeArg, task, notified, spurious, repolls, pollLog,
                   readyValue, pendingAfterDone, lastPendingWaker, wakeCount>>
    /\ UNCHANGED besidesFuture

\* A completion that takes the waker and drops it without waking.
wake_forgotten(counts, w) == counts

\* `waker.wake()`
wake(counts, w) == [counts EXCEPT ![w] = @ + 1]

\* A completion that wakes through a copy and leaves the waker stored.
waker_left_stored(w) == w

\* What `self.waker.take()` leaves behind.
take_waker(w) == 0

\* `if let Some(waker) = self.waker.take() { waker.wake() }`, then the guard
\* is dropped and the callback returns.
CompleteWake ==
    /\ completePc = "stored"
    /\ IF waker # 0
       THEN /\ wakeCount' = wake(wakeCount, waker)
            /\ notified' = (notified \/ wakeCount' # wakeCount)
       ELSE UNCHANGED <<wakeCount, notified>>
    /\ waker' = take_waker(waker)
    /\ mutex' = "free"
    /\ completePc' = "done"
    /\ UNCHANGED <<pending, result, poisoned, pollPc, pollWaker, pollAfterDone,
                   completeArg, task, spurious, repolls, pollLog, readyValue,
                   pendingAfterDone, lastPendingWaker>>
    /\ UNCHANGED besidesFuture

(***************************************************************************)
(* The host side (HostSpec): enumeration, open_usb_device, and the         *)
(* interface map of the opened device with claim / unclaim.                *)
(***************************************************************************)
MaxDevices == 2
MaxIfaces == 2
MaxEndpoints == 2
MaxClaims == 2

\* `for _ in 0..5`
RetryAttempts == 5

\* A device of the IORegistry as the backend sees it: its locationID
\* property (NoLocation: the property cannot be read) and whether its
\* idVendor / idProduct properties can be read.
NoLocation == 0
Locations == 1..2
DeviceKinds == [location : {NoLocation} \cup Locations, readable : BOOLEAN]
Registries == UNION {[1..n -> DeviceKinds] : n \in 0..MaxDevices}

\* What IOServiceGetMatchingServices can answer for a registry: a status and
\* a raw iterator handle (0 only when nothing is listed).
IteratorAnswers(reg) ==
    {<<"kIOReturnSuccess", 1>>, <<"kIOReturnNoDevice", 0>>}
        \cup (IF reg = <<>> THEN {<<"kIOReturnSuccess", 0>>} ELSE {})

PluginCodes == {"kIOReturnSuccess", "kIOReturnNoResources", "kIOReturnExclusiveAccess"}
InterfaceCodes == {"kIOReturnSuccess", "kIOReturnNoDevice"}

IfaceNumbers == 0..MaxIfaces

NoInterface == [present |-> FALSE, deny_all |-> FALSE, is_open |-> FALSE]

\* OsInterface::new
OsInterface_new == [present |-> TRUE, deny_all |-> FALSE, is_open |-> FALSE]

\* OsInterface::new_denying_placeholder
new_denying_placeholder == [present |-> TRUE, deny_all |-> TRUE, is_open |-> FALSE]

NoOp == [op |-> "none", arg |-> 0, os |-> "none", result |-> NoResult]

HostInit ==
    /\ hostPc = "idle"
    /\ lastOp = NoOp
    /\ enumIn = <<>>
    /\ devices = <<>>
    /\ matched = FALSE
    /\ skipped = 0
    /\ attempts = 0
    /\ sleeps = 0
    /\ deviceOpened = FALSE
    /\ threadsSpawned = 0
    /\ sources = 0
    /\ ifIndex = 0
    /\ interfaces = [i \in IfaceNumbers |-> NoInterface]
    /\ metadata = {}
    /\ osOpen = [i \in IfaceNumbers |-> FALSE]
    /\ claimOpens = [i \in IfaceNumbers |-> 0]
    /\ closeCalls = [i \in IfaceNumbers |-> 0]
    /\ claimsOk = [i \in IfaceNumbers |-> 0]
    /\ unclaims = [i \in IfaceNumbers |-> FALSE]
    /\ metadataFailed = FALSE
    /\ deniedSeen = FALSE

enumVars == <<enumIn, devices>>
searchVars == <<matched, skipped>>
retryVars == <<attempts, sleeps>>
threadVars == <<threadsSpawned, sources>>
mapVars == <<interfaces, metadata, osOpen>>
claimVars == <<claimOpens, closeCalls, claimsOk, unclaims>>
historyVars == <<metadataFailed, deniedSeen>>

(***************************************************************************)
(* Enumeration.                                                            *)
(***************************************************************************)
get_device_iterator(rc, raw_device_iterator) ==
    IF rc # "kIOReturnSuccess" THEN OsError(rc)
    ELSE IF raw_device_iterator = 0 THEN Err("DeviceNotFound")
    ELSE Ok(raw_device_iterator)

\* The vendor and product id are read first (`?`), the location last.
get_device_information(device) ==
    IF ~device.readable THEN Err("UnspecifiedOsError")
    ELSE IF device.location = NoLocation THEN Err("DeviceNotReal")
    ELSE Ok(device.location)

\* An enumeration that reports a device without a location as an error.
not_real_is_reported(info) == FALSE

\* `Err(Error::DeviceNotReal) => ()`
not_real_is_skipped(info) == info = Err("DeviceNotReal")

\* The `while` loop of enumerate_devices from the k-th listed device on.
RECURSIVE enumerate_from(_, _, _)
enumerate_from(reg, k, acc) ==
    IF k > Len(reg) THEN [result |-> Ok(Len(acc)), devices |-> acc]
    ELSE LET device_info == get_device_information(reg[k])
         IN IF not_real_is_skipped(device_info) THEN enumerate_from(reg, k + 1, acc)
            ELSE IF device_info.ok
                 THEN enumerate_from(reg, k + 1, Append(acc, device_info.value))
                 ELSE [result |-> device_info, devices |-> <<>>]

enumerate_devices(device_iterator, reg) ==
    IF device_iterator = Err("DeviceNotFound") THEN [result |-> Ok(0), devices |-> <<>>]
    ELSE IF ~device_iterator.ok THEN [result |-> device_iterator, devices |-> <<>>]
    ELSE enumerate_from(reg, 1, <<>>)

get_devices(reg, rc, raw) ==
    /\ hostPc = "idle"
    /\ LET out == enumerate_devices(get_device_iterator(rc, raw), reg)
       IN /\ lastOp' = [op |-> "get_devices", arg |-> raw, os |-> rc,
                        result |-> out.result]
          /\ devices' = out.devices
    /\ enumIn' = reg
    /\ UNCHANGED <<hostPc, searchVars, retryVars, deviceOpened, threadVars,
                   ifIndex, mapVars, claimVars, historyVars>>
    /\ UNCHANGED besidesHost

(***************************************************************************)
(* open_usb_device: the search for the device with the given locator.      *)
(***************************************************************************)
\* A search that takes the first device that has a location.
location_matches_any(location_id, target_location_id) == TRUE

\* `location_id.unwrap() as u64 != target_location_id` is false
location_matches(location_id, target_location_id) == location_id = target_location_id

\* The `while` loop of open_usb_device from the k-th listed device on: the
\* index of the device handed to open_usb_device_from_io_device (0: none)
\* and the number of devices skipped for having no location ID.
RECURSIVE find_device(_, _, _, _)
find_device(reg, k, target, skips) ==
    IF k > Len(reg) THEN [index |-> 0, skipped |-> skips]
    ELSE IF reg[k].location = NoLocation THEN find_device(reg, k + 1, target, skips + 1)
    ELSE IF ~location_matches(reg[k].location, target)
         THEN find_device(reg, k + 1, target, skips)
         ELSE [index |-> k, skipped |-> skips]

open_usb_device(reg, rc, raw, target) ==
    /\ hostPc \in {"idle", "failed"}
    /\ LET device_iterator == get_device_iterator(rc, raw)
           found == find_device(reg, 1, target, 0)
       IN /\ lastOp' = [op |-> "open", arg |-> target, os |-> rc,
                        result |-> IF ~device_iterator.ok THEN device_iterator
                                   ELSE IF found.index = 0 THEN Err("DeviceNotFound")
                                   ELSE NoResult]
          /\ hostPc' = IF device_iterator.ok /\ found.index # 0 THEN "plugin"
                       ELSE "failed"
          /\ skipped' = IF device_iterator.ok /\ found.index = 0 THEN found.skipped
                        ELSE 0
    /\ matched' = \E k \in DOMAIN reg : reg[k].location = target
    /\ attempts' = 0
    /\ sleeps' = 0
    /\ metadataFailed' = FALSE
    /\ deniedSeen' = FALSE
    /\ enumIn' = IF hostPc' = "failed" THEN reg ELSE <<>>
    /\ devices' = <<>>
    /\ UNCHANGED <<deviceOpened, threadVars, ifIndex, mapVars, claimVars>>
    /\ UNCHANGED besidesHost

(***************************************************************************)
(* open_usb_device_from_io_device.                                         *)
(***************************************************************************)
\* OsDevice::close, as the value of is_open afterwards: close returns at
\* once on a device that is not open; otherwise USBDeviceClose is called,
\* and is_open is cleared only when it answers kIOReturnSuccess.
OsDevice_close(is_open, rc) == is_open /\ rc # "kIOReturnSuccess"

\* The MacOsDevice built so far is dropped, by an early return of open or by
\* the unwinding of a panic inside it, and the Vec of notification sources
\* with it.  Drop for OsDevice closes the device (USBDeviceClose answers rc)
\* and releases it; the maps go, and each OsInterface is released without a
\* USBInterfaceClose, as no is_open was ever set: what the OS holds open
\* stays open.
device_dropped(rc) ==
    /\ deviceOpened' = OsDevice_close(deviceOpened, rc)
    /\ sources' = 0
    /\ ifIndex' = 0
    /\ interfaces' = [i \in IfaceNumbers |-> NoInterface]
    /\ metadata' = {}
    /\ osOpen' = osOpen

\* open returns `error`; the MacOsDevice built so far is dropped, and
\* USBDeviceClose, if it is called, answers rc.
open_fails(error, rc) ==
    /\ hostPc' = "failed"
    /\ lastOp' = [lastOp EXCEPT !.result = error]
    /\ device_dropped(rc)

\* A loop that asks once more than `0..5` does.
range_has_next_one_more(n) == n < RetryAttempts + 1

\* `for _ in 0..5`: n iterations have been made.
range_has_next(n) == n < RetryAttempts

\* One iteration of the retry loop: IOCreatePlugInInterfaceForService
\* answers rc and the plugin pointer; QueryInterface the device pointer.
create_plugin(rc, raw_device_plugin, raw_device) ==
    /\ hostPc = "plugin"
    /\ range_has_next(attempts)
    /\ attempts' = attempts + 1
    /\ IF rc = "kIOReturnNoResources"
       THEN /\ sleeps' = sleeps + 1
            /\ IF range_has_next(attempts + 1)
               THEN /\ hostPc' = "plugin"
                    /\ lastOp' = lastOp
               ELSE /\ hostPc' = "failed"
                    /\ lastOp' = [lastOp EXCEPT !.result = Err("DeviceNotFound")]
       ELSE /\ sleeps' = sleeps
            /\ IF rc # "kIOReturnSuccess"
               THEN /\ hostPc' = "failed"
                    /\ lastOp' = [lastOp EXCEPT !.result = OsError(rc)]
               ELSE IF raw_device_plugin = 0
               THEN /\ hostPc' = "failed"
                    /\ lastOp' = [lastOp EXCEPT !.result = Err("UnspecifiedOsError")]
               ELSE IF raw_device = 0
               THEN /\ hostPc' = "panicked"
                    /\ lastOp' = lastOp
               ELSE /\ hostPc' = "device"
                    /\ lastOp' = lastOp
    /\ IF hostPc' = "device"
       \* `Box::new(MacOsDevice { device: OsDevice::new(raw_device), .. })`
       THEN /\ deviceOpened' = FALSE
            /\ sources' = 0
            /\ ifIndex' = 0
            /\ interfaces' = [i \in IfaceNumbers |-> NoInterface]
            /\ metadata' = {}
            /\ osOpen' = [i \in IfaceNumbers |-> FALSE]
       ELSE UNCHANGED <<deviceOpened, sources, ifIndex, mapVars>>
    /\ UNCHANGED <<enumVars, searchVars, threadsSpawned, claimVars, historyVars>>
    /\ UNCHANGED besidesHost

\* `backend_device.device.open()?`; the device that USBDeviceOpen refused
\* is not open, and its drop makes no USBDeviceClose call.
open_device(rc) ==
    /\ hostPc = "device"
    /\ IF from_io_return(rc).ok
       THEN /\ hostPc' = "source"
            /\ deviceOpened' = TRUE
            /\ UNCHANGED <<lastOp, sources, ifIndex, mapVars>>
       ELSE open_fails(from_io_return(rc), rc)
    /\ UNCHANGED <<enumVars, searchVars, retryVars, threadsSpawned, claimVars,
                   historyVars>>
    /\ UNCHANGED besidesHost

\* `notification_sources.push(backend_device.device.notification_source()?)`
\* on the new, empty Vec; rcClose is the answer of the USBDeviceClose that the
\* drop of the device makes when the source is refused.
device_notification_source(rc, rcClose) ==
    /\ hostPc = "source"
    /\ IF from_io_return(rc).ok
       THEN /\ hostPc' = "iterator"
            /\ sources' = 1
            /\ UNCHANGED <<lastOp, deviceOpened, ifIndex, mapVars>>
       ELSE open_fails(from_io_return(rc), rcClose)
    /\ UNCHANGED <<enumVars, searchVars, retryVars, threadsSpawned, claimVars,
                   historyVars>>
    /\ UNCHANGED besidesHost

\* `self.device.create_interface_iterator()?`; rcClose as above.
create_interface_iterator(rc, rcClose) ==
    /\ hostPc = "iterator"
    /\ IF from_io_return(rc).ok
       THEN /\ hostPc' = "populate"
            /\ ifIndex' = 0
            /\ UNCHANGED <<lastOp, deviceOpened, sources, mapVars>>
       ELSE open_fails(from_io_return(rc), rcClose)
    /\ UNCHANGED <<enumVars, searchVars, retryVars, threadsSpawned, claimVars,
                   historyVars>>
    /\ UNCHANGED besidesHost

(***************************************************************************)
(* populate_interfaces: one iteration per interface the OS lists.          *)
(***************************************************************************)
\* A call through the null `interface` pointer of a placeholder is undefined
\* behaviour: the process dies (the null check of a debug build, or a fault
\* in the call), the call comes back with some status, or the optimiser
\* removes the code that leads to the call, so that the refusal that would have
\* produced the placeholder is returned like any other error.
UbOutcomes == {"crash", "returns", "elided"}

\* The outcomes of the Release a dropped placeholder makes through its null
\* pointer: a Release the optimiser removed ends like one that returns.
DropOutcomes == UbOutcomes \ {"elided"}

interface_from_service(rc, raw_interface_plugin, raw_interface) ==
    IF ~from_io_return(rc).ok THEN from_io_return(rc)
    ELSE IF raw_interface_plugin = 0 THEN Err("UnspecifiedOsError")
    ELSE IF raw_interface = 0 THEN Err("panic")
    ELSE Ok(0)

\* The endpoint the OS describes for pipe_ref p of interface i: odd pipes
\* are IN endpoints, and endpoint numbers are unique on the device.
endpoint_properties(i, p) ==
    [direction |-> p % 2, number |-> i * MaxEndpoints + p]

endpoint_address(endpoint) ==
    IF endpoint.direction = 0 THEN address_for_out_endpoint(endpoint.number)
    ELSE address_for_in_endpoint(endpoint.number)

\* HashMap::insert keyed by the endpoint address.
metadata_insert(map, entry) ==
    {e \in map : e.address # entry.address} \cup {entry}

\* OsInterface::open: the result, whether USBInterfaceOpen was called, and
\* the interface afterwards (is_open is not assigned).
OsInterface_open_unguarded(iface, rc) ==
    IF iface.is_open THEN [result |-> Ok(0), called |-> FALSE, iface |-> iface]
    ELSE [result |-> from_io_return(rc), called |-> TRUE, iface |-> iface]

OsInterface_open(iface, rc) ==
    IF iface.deny_all
    THEN [result |-> Err("PermissionDenied"), called |-> FALSE, iface |-> iface]
    ELSE IF iface.is_open THEN [result |-> Ok(0), called |-> FALSE, iface |-> iface]
    ELSE [result |-> from_io_return(rc), called |-> TRUE, iface |-> iface]

\* A close that takes the interface out of the map.
OsInterface_close_removing(iface, rc) ==
    [called |-> FALSE, panicked |-> FALSE, iface |-> NoInterface]

\* OsInterface::close: whether USBInterfaceClose was called, whether close
\* panicked, and the interface afterwards.
OsInterface_close(iface, rc) ==
    IF ~iface.is_open THEN [called |-> FALSE, panicked |-> FALSE, iface |-> iface]
    ELSE IF iface.deny_all THEN [called |-> FALSE, panicked |-> TRUE, iface |-> iface]
    ELSE [called |-> TRUE, panicked |-> FALSE,
          iface |-> [iface EXCEPT !.is_open = (rc # "kIOReturnSuccess")]]

\* populate_endpoint_metadata for interface i: GetNumEndpoints answers
\* rcCount and count; the calls made for pipe failingPipe (0: none fail)
\* fail at failingCall.  Gives the entries inserted, whether the OS was left
\* holding the interface open, and the result the function returns.
RECURSIVE populate_pipes(_, _, _, _, _, _)
populate_pipes(i, p, count, failingPipe, failingCall, acc) ==
    IF p > count THEN [entries |-> acc.entries, opened |-> acc.opened, result |-> Ok(0)]
    ELSE IF p = failingPipe /\ failingCall = "USBInterfaceOpen"
         THEN [entries |-> acc.entries, opened |-> acc.opened,
               result |-> io_return_to_error("kIOReturnExclusiveAccess")]
    ELSE IF p = failingPipe
         THEN [entries |-> acc.entries, opened |-> TRUE,
               result |-> io_return_to_error("kIOReturnNoDevice")]
    ELSE populate_pipes(i, p + 1, count, failingPipe, failingCall,
                        [entries |-> metadata_insert(acc.entries,
                                         [address |-> endpoint_address(endpoint_properties(i, p)),
                                          interface_number |-> i, pipe_ref |-> p]),
                         \* close() returns at once: is_open was never set
                         opened |-> TRUE])

populate_endpoint_metadata(map, iface, i, rcCount, count, failingPipe, failingCall) ==
    IF iface.deny_all THEN [entries |-> map, opened |-> FALSE, result |-> Ok(0)]
    ELSE IF ~from_io_return(rcCount).ok
         THEN [entries |-> map, opened |-> FALSE, result |-> from_io_return(rcCount)]
    ELSE populate_pipes(i, 1, count, failingPipe, failingCall,
                        [entries |-> map, opened |-> FALSE])

\* A loop that culls the interface instead of storing it.
interfaces_insert_culled(map, number, iface) == map

\* `self.interfaces.insert(interface.interface_number()?, interface)`
interfaces_insert(map, number, iface) == [map EXCEPT ![number] = iface]

\* A placeholder is held by the device being built.
PlaceholderHeld == \E j \in IfaceNumbers : interfaces[j].deny_all

\* What one iteration of the loop leads to.  `ub` is the outcome of the call
\* notification_source makes through a placeholder's null pointer, ubDrop
\* that of the Release a dropped placeholder makes through it.  `dropped`
\* tells whether the device was dropped (by a return, or by the unwinding of
\* the panic): the OsDevice is closed and released before the interfaces of
\* the map.  The interface of the iteration is a local of populate_interfaces
\* and is dropped before the device: when it is a placeholder whose Release
\* takes the process down, the device has not been closed.
populate_outcome(i, a) ==
    LET service == interface_from_service(a.rc, a.raw_plugin, a.raw_interface)
        denied == service = Err("PermissionDenied")
        iface == IF denied THEN new_denying_placeholder ELSE OsInterface_new
        source == from_io_return(a.rcSource)
        meta == populate_endpoint_metadata(metadata, iface, i, a.rcCount, a.count,
                                           a.failingPipe, a.failingCall)
        none == [pc |-> "populate", result |-> NoResult, iface |-> NoInterface,
                 entries |-> metadata, opened |-> FALSE, failedMeta |-> FALSE,
                 denied |-> denied, dropped |-> FALSE]
        gone == [none EXCEPT !.dropped = TRUE]
    IN IF service = Err("panic")
            THEN [gone EXCEPT !.pc = IF PlaceholderHeld /\ a.ubDrop = "crash"
                                     THEN "crashed" ELSE "panicked"]
       ELSE IF ~service.ok /\ ~denied
            THEN [gone EXCEPT !.pc = IF PlaceholderHeld /\ a.ubDrop = "crash"
                                     THEN "crashed" ELSE "failed",
                              !.result = service]
       ELSE IF denied /\ a.ub = "crash" THEN [none EXCEPT !.pc = "crashed"]
       ELSE IF denied /\ a.ub = "elided"
            \* no placeholder is built and no notification source is asked for
            THEN [gone EXCEPT !.pc = IF PlaceholderHeld /\ a.ubDrop = "crash"
                                     THEN "crashed" ELSE "failed",
                              !.result = service]
       ELSE IF ~source.ok /\ denied /\ a.ubDrop = "crash"
            THEN [none EXCEPT !.pc = "crashed", !.result = source]
       ELSE IF ~source.ok
            THEN [gone EXCEPT !.pc = IF PlaceholderHeld /\ a.ubDrop = "crash"
                                     THEN "crashed" ELSE "failed",
                              !.result = source]
       ELSE [pc |-> "populate", result |-> NoResult, iface |-> iface,
             entries |-> meta.entries, opened |-> meta.opened,
             \* `_ = self.populate_endpoint_metadata(&mut interface);`
             failedMeta |-> ~meta.result.ok, denied |-> denied, dropped |-> FALSE]

populate_interface(a) ==
    /\ hostPc = "populate"
    /\ ifIndex < MaxIfaces
    /\ LET out == populate_outcome(ifIndex, a)
       IN /\ hostPc' = out.pc
          /\ deniedSeen' = (deniedSeen \/ out.denied)
          /\ metadataFailed' = (metadataFailed \/ out.failedMeta)
          /\ IF out.pc = "failed" THEN open_fails(out.result, a.rcClose)
             ELSE IF out.pc = "populate"
             THEN /\ sources' = sources + 1
                  /\ interfaces' = interfaces_insert(interfaces, ifIndex, out.iface)
                  /\ metadata' = out.entries
                  /\ osOpen' = [osOpen EXCEPT ![ifIndex] = out.opened]
                  /\ ifIndex' = ifIndex + 1
                  /\ UNCHANGED <<lastOp, deviceOpened>>
             ELSE IF out.pc = "panicked"
             THEN device_dropped(a.rcClose) /\ UNCHANGED lastOp
             \* the process died: in the call through the null pointer, in
             \* the Release of the placeholder of this iteration, or in the
             \* Release of a placeholder of the map after the OsDevice was
             \* closed
             ELSE /\ deviceOpened' = IF out.dropped
                                      THEN OsDevice_close(deviceOpened, a.rcClose)
                                      ELSE deviceOpened
                  /\ UNCHANGED <<lastOp, sources, ifIndex, mapVars>>
    /\ UNCHANGED <<enumVars, searchVars, retryVars, threadsSpawned, claimVars>>
    /\ UNCHANGED besidesHost

\* An open that returns the device without spawning its event loop.
populate_done_without_spawn ==
    /\ hostPc = "populate"
    /\ hostPc' = "opened"
    /\ lastOp' = [lastOp EXCEPT !.result = Ok(0)]
    /\ UNCHANGED <<enumVars, searchVars, retryVars, deviceOpened, threadVars, ifIndex,
                   mapVars, claimVars, historyVars>>
    /\ UNCHANGED besidesHost

\* IOIteratorNext returns 0: the event-loop thread is spawned and open
\* returns the device.
populate_done ==
    /\ hostPc = "populate"
    /\ hostPc' = "opened"
    /\ threadsSpawned' = threadsSpawned + 1
    /\ lastOp' = [lastOp EXCEPT !.result = Ok(0)]
    /\ UNCHANGED <<enumVars, searchVars, retryVars, deviceOpened, sources, ifIndex,
                   mapVars, claimVars, historyVars>>
    /\ UNCHANGED besidesHost

(***************************************************************************)
(* claim_interface / unclaim_interface on the opened device.               *)
(***************************************************************************)
\* A backend with one error for every failed interface lookup.
missing_interface_uniform(op) == Err("InvalidArgument")

\* `.interfaces.get(&interface).ok_or(..)?` found no entry: claim_interface
\* and unclaim_interface give InvalidArgument, set_alternate_setting gives
\* InvalidInterface.
missing_interface(op) ==
    IF op = "set_alternate_setting" THEN Err("InvalidInterface")
    ELSE Err("InvalidArgument")

claim_interface(interface, rc) ==
    /\ hostPc = "opened"
    /\ claimOpens[interface] < MaxClaims
    /\ claimsOk[interface] < MaxClaims
    /\ IF ~interfaces[interface].present
       THEN /\ lastOp' = [op |-> "claim_interface", arg |-> interface, os |-> "none",
                          result |-> missing_interface("claim_interface")]
            /\ UNCHANGED <<interfaces, osOpen, claimOpens, claimsOk>>
       ELSE LET opened == OsInterface_open(interfaces[interface], rc)
            IN /\ lastOp' = [op |-> "claim_interface", arg |-> interface,
                             os |-> IF opened.called THEN rc ELSE "none",
                             result |-> opened.result]
               /\ interfaces' = [interfaces EXCEPT ![interface] = opened.iface]
               /\ osOpen' = [osOpen EXCEPT ![interface] =
                                @ \/ (opened.called /\ rc = "kIOReturnSuccess")]
               /\ claimOpens' = [claimOpens EXCEPT ![interface] =
                                    IF opened.called THEN @ + 1 ELSE @]
               /\ claimsOk' = [claimsOk EXCEPT ![interface] =
                                  IF opened.result.ok THEN @ + 1 ELSE @]
    /\ UNCHANGED <<hostPc, enumVars, searchVars, retryVars, deviceOpened,
                   threadVars, ifIndex, metadata, closeCalls, unclaims,
                   historyVars>>
    /\ UNCHANGED besidesHost

unclaim_interface(interface, rc) ==
    /\ hostPc = "opened"
    /\ IF ~interfaces[interface].present
       THEN /\ lastOp' = [op |-> "unclaim_interface", arg |-> interface, os |-> "none",
                          result |-> missing_interface("unclaim_interface")]
            /\ UNCHANGED <<hostPc, interfaces, osOpen, claimVars>>
       ELSE LET closed == OsInterface_close(interfaces[interface], rc)
            IN IF closed.panicked
               THEN /\ hostPc' = "panicked"
                    /\ UNCHANGED <<lastOp, interfaces, osOpen, claimVars>>
               ELSE /\ lastOp' = [op |-> "unclaim_interface", arg |-> interface,
                                  os |-> IF closed.called THEN rc ELSE "none",
                                  result |-> Ok(0)]
                    /\ interfaces' = [interfaces EXCEPT ![interface] = closed.iface]
                    /\ osOpen' = [osOpen EXCEPT ![interface] =
                                     IF closed.called /\ rc = "kIOReturnSuccess"
                                     THEN FALSE ELSE @]
                    /\ closeCalls' = [closeCalls EXCEPT ![interface] =
                                         IF closed.called THEN @ + 1 ELSE @]
                    /\ unclaims' = [unclaims EXCEPT ![interface] =
                                       @ \/ claimsOk[interface] >= 1]
                    /\ claimsOk' = [claimsOk EXCEPT ![interface] = 0]
                    /\ claimOpens' = [claimOpens EXCEPT ![interface] = 0]
                    /\ UNCHANGED hostPc
    /\ UNCHANGED <<enumVars, searchVars, retryVars, deviceOpened, threadVars,
                   ifIndex, metadata, historyVars>>
    /\ UNCHANGED besidesHost

(***************************************************************************)
(* The other operations on the opened device, transfers included.  They    *)
(* read the two maps and call the OS; none of them writes a field of the   *)
(* MacOsDevice.                                                            *)
(***************************************************************************)
\* The endpoint addresses populate_interfaces can have recorded, and one
\* address no device of the model has.
AddressArgs ==
    {endpoint_address(endpoint_properties(i, p)) :
        i \in 0..(MaxIfaces - 1), p \in 1..MaxEndpoints} \cup {0}

\* The operation `op` returned `res`; `status` is the status of the OS call it
\* made ("none": it made no OS call).
returns(op, arg, status, res) ==
    /\ lastOp' = [op |-> op, arg |-> arg, os |-> status, result |-> res]
    /\ UNCHANGED <<hostPc, enumVars, searchVars, retryVars, deviceOpened, threadVars,
                   ifIndex, mapVars, claimVars, historyVars>>
    /\ UNCHANGED besidesHost

\* resources_for_endpoint on the maps of the opened device.
resources_for_opened(address) ==
    IF \A e \in metadata : e.address # address THEN Err("InvalidEndpoint")
    ELSE LET e == CHOOSE e \in metadata : e.address = address
         IN IF ~interfaces[e.interface_number].present THEN Err("panic")
            ELSE Ok(e.interface_number)

\* OsInterface::clear_stall and OsInterface::set_alternate_setting: the
\* status of the OS call made ("none": no call) and the result.
OsInterface_call(iface, rc) ==
    IF iface.deny_all THEN [os |-> "none", result |-> Err("PermissionDenied")]
    ELSE [os |-> rc, result |-> from_io_return(rc)]

\* The Device that open returned is alive: its event-loop thread was spawned
\* with it, and it has not been dropped.
DeviceAlive == threadsSpawned > 0 /\ devState = "open"

\* The operation panicked: `.expect(..)` found no interface for an endpoint,
\* or `borrow_mut()` found the buffer borrowed.  The panic unwinds out of the
\* backend; what becomes of the Device is the step after it (unwound_opened,
\* drop_opened, drop_unwinding).
panics_opened ==
    /\ hostPc' = "panicked"
    /\ UNCHANGED <<lastOp, enumVars, searchVars, retryVars, deviceOpened,
                   threadVars, ifIndex, mapVars, claimVars, historyVars>>
    /\ UNCHANGED besidesHost

clear_stall_opened(address, rc) ==
    /\ hostPc = "opened"
    /\ LET found == resources_for_opened(address)
           done == OsInterface_call(interfaces[found.value], rc)
       IN IF found = Err("panic") THEN panics_opened
          ELSE IF ~found.ok THEN returns("clear_stall", address, "none", found)
          ELSE returns("clear_stall", address, done.os, done.result)

\* The lengths the OS can report for a finished transfer.
Sizes == {0, 1}

\* A bulk transfer: `self.resources_for_in_endpoint(device, endpoint)?` or
\* its OUT twin, then, in read_nonblocking, `(*buffer).borrow_mut()`, then
\* one call through the pointer of the interface found; OsInterface checks
\* neither deny_all nor is_open here.  `done` is what the operation returns
\* when the OS answers kIOReturnSuccess.
transfer_opened(op, endpoint, address, borrowed, rc, done) ==
    /\ hostPc = "opened"
    /\ LET found == resources_for_opened(address)
       IN IF found = Err("panic") THEN panics_opened
          ELSE IF ~found.ok THEN returns(op, endpoint, "none", found)
          ELSE IF borrowed THEN panics_opened
          ELSE returns(op, endpoint, rc, from_io_return_and_value(rc, done))

\* `interface.read(pipe_ref, buffer)`: `Ok(size as usize)`
read_opened(endpoint, rc, size) ==
    transfer_opened("read", endpoint, address_for_in_endpoint(endpoint), FALSE, rc, size)

\* `interface.write(pipe_ref, data)`
write_opened(endpoint, rc) ==
    transfer_opened("write", endpoint, address_for_out_endpoint(endpoint), FALSE, rc, 0)

\* `interface.read_nonblocking(pipe_ref, .., delegate_iousb_callback, ..)`
read_nonblocking_opened(endpoint, borrowed, rc) ==
    transfer_opened("read_nonblocking", endpoint, address_for_in_endpoint(endpoint),
                    borrowed, rc, 0)

\* `interface.write_nonblocking(pipe_ref, .., delegate_iousb_callback, ..)`
write_nonblocking_opened(endpoint, rc) ==
    transfer_opened("write_nonblocking", endpoint, address_for_out_endpoint(endpoint),
                    FALSE, rc, 0)

\* A control transfer: in control_read_nonblocking `(*target).borrow_mut()`,
\* then the check of the length against u16::MAX (`long`: it is longer), then
\* one call through the device pointer.  `done` as above.
control_opened(op, borrowed, long, rc, done) ==
    /\ hostPc = "opened"
    /\ IF borrowed THEN panics_opened
       ELSE IF long THEN returns(op, 0, "none", Err("Overrun"))
       ELSE returns(op, 0, rc, from_io_return_and_value(rc, done))

\* `Ok(request_struct.wLenDone as usize)`
control_read_opened(long, rc, wLenDone) ==
    control_opened("control_read", FALSE, long, rc, wLenDone)

control_write_opened(long, rc) ==
    control_opened("control_write", FALSE, long, rc, 0)

control_read_nonblocking_opened(borrowed, long, rc) ==
    control_opened("control_read_nonblocking", borrowed, long, rc, 0)

control_write_nonblocking_opened(long, rc) ==
    control_opened("control_write_nonblocking", FALSE, long, rc, 0)

set_alternate_setting(interface, rc) ==
    /\ hostPc = "opened"
    /\ LET done == OsInterface_call(interfaces[interface], rc)
       IN IF ~interfaces[interface].present
          THEN returns("set_alternate_setting", interface, "none",
                       missing_interface("set_alternate_setting"))
          ELSE returns("set_alternate_setting", interface, done.os, done.result)

\* OsDevice::set_configuration through the device pointer.
set_active_configuration(rc) ==
    /\ hostPc = "opened"
    /\ returns("set_active_configuration", 0, rc, from_io_return(rc))

\* OsDevice::reset through the device pointer.
reset_device(rc) ==
    /\ hostPc = "opened"
    /\ returns("reset_device", 0, rc, from_io_return(rc))

\* A backend that has a way of releasing kernel drivers.
release_result_ok(interface) == Ok(0)

\* `Err(Error::Unsupported)`
release_result(interface) == Err("Unsupported")

release_kernel_driver(interface) ==
    /\ hostPc = "opened"
    /\ returns("release_kernel_driver", interface, "none", release_result(interface))

\* The caller caught the panic of an operation and kept the Device: the
\* operations on it can be called again.
unwound_opened ==
    /\ hostPc = "panicked"
    /\ DeviceAlive
    /\ hostPc' = "opened"
    /\ UNCHANGED <<lastOp, enumVars, searchVars, retryVars, deviceOpened,
                   threadVars, ifIndex, mapVars, claimVars, historyVars>>
    /\ UNCHANGED besidesHost

\* The Device is dropped by its owner, after an operation returned or after
\* the owner caught the panic of one.  Drop for MacOsDevice stores the
\* termination flag; then the fields are dropped in the order of their
\* declaration: the OsDevice is closed (USBDeviceClose answers rc) and
\* released, and each OsInterface of the map is closed and then released
\* through its `interface` pointer, which is null in a placeholder.
drop_opened(ub, rc) ==
    /\ hostPc \in {"opened", "panicked"}
    /\ DeviceAlive
    /\ hostPc' = IF PlaceholderHeld /\ ub = "crash" THEN "crashed" ELSE "dropped"
    /\ termination_flag' = drop_MacOsDevice(termination_flag)
    /\ deviceOpened' = OsDevice_close(deviceOpened, rc)
    /\ devState' = IF PlaceholderHeld /\ ub = "crash" THEN "dropping" ELSE "released"
    /\ lastOp' = [op |-> "drop", arg |-> 0,
                  os |-> IF PlaceholderHeld THEN "null" ELSE "Release",
                  result |-> NoResult]
    /\ UNCHANGED <<enumVars, searchVars, retryVars, threadVars,
                   ifIndex, mapVars, claimVars, historyVars>>
    /\ UNCHANGED <<loopVars, callerPc, call, requestVars, futureVars, applied>>

\* The panic of an operation unwinds through the frame that owns the Device
\* and drops it, with the same calls as above; the thread stays panicked
\* and the operation has returned nothing.
drop_unwinding(ub, rc) ==
    /\ hostPc = "panicked"
    /\ DeviceAlive
    /\ hostPc' = IF PlaceholderHeld /\ ub = "crash" THEN "crashed" ELSE "panicked"
    /\ termination_flag' = drop_MacOsDevice(termination_flag)
    /\ deviceOpened' = OsDevice_close(deviceOpened, rc)
    /\ devState' = IF PlaceholderHeld /\ ub = "crash" THEN "dropping" ELSE "released"
    /\ UNCHANGED <<lastOp, enumVars, searchVars, retryVars, threadVars,
                   ifIndex, mapVars, claimVars, historyVars>>
    /\ UNCHANGED <<loopVars, callerPc, call, requestVars, futureVars, applied>>

(***************************************************************************)
(* The functions of the library that keep no state (PureSpec): each step   *)
(* applies one of them to an input and records the input and the output.   *)
(***************************************************************************)
\* Option<T>: None is the empty tuple, Some(x) the tuple of x.
None == <<>>
Some(x) == <<x>>
OptionOf(S) == {None} \cup {Some(x) : x \in S}

VendorIds == {1, 2}
ProductIds == {1, 2}
Serials == {"A", "B"}

\* DeviceInformation, as far as DeviceSelector looks at it.
DeviceInformations ==
    [product_id : ProductIds, serial : OptionOf(Serials), vendor_id : VendorIds]

DeviceSelectors ==
    [product_id : OptionOf(ProductIds), serial : OptionOf(Serials),
     vendor_id : OptionOf(VendorIds)]

\* A selector that forgets to look at the serial.
matches_ignoring_serial(selector, device) ==
    IF selector.vendor_id # None /\ selector.vendor_id[1] # device.vendor_id THEN FALSE
    ELSE IF selector.product_id # None /\ selector.product_id[1] # device.product_id
    THEN FALSE
    ELSE TRUE

\* A selector that refuses every device when it has nothing set.
matches_needing_a_field(selector, device) ==
    IF selector.vendor_id # None /\ selector.vendor_id[1] # device.vendor_id THEN FALSE
    ELSE IF selector.product_id # None /\ selector.product_id[1] # device.product_id
    THEN FALSE
    ELSE IF selector.serial # None /\ selector.serial # device.serial THEN FALSE
    ELSE selector # [product_id |-> None, serial |-> None, vendor_id |-> None]

\* DeviceSelector::matches
matches(selector, device) ==
    IF selector.vendor_id # None /\ selector.vendor_id[1] # device.vendor_id THEN FALSE
    ELSE IF selector.product_id # None /\ selector.product_id[1] # device.product_id
    THEN FALSE
    ELSE IF selector.serial # None /\ selector.serial # device.serial THEN FALSE
    ELSE TRUE

\* No function has been applied (every specification but PureSpec).
NotApplied == [done |-> TRUE, fn |-> "none", input |-> <<>>, output |-> <<>>]

PureInit == applied = NotApplied

\* The call of `fn` on `input` that has not returned yet.
Call(fn, input) == [done |-> FALSE, fn |-> fn, input |-> input, output |-> <<>>]

\* The pending call is one of `fn`.
Called(fn) == applied.fn = fn /\ ~applied.done

\* The pending call returns `output`.
gives(output) ==
    /\ applied' = [applied EXCEPT !.done = TRUE, !.output = output]
    /\ UNCHANGED besidesPure

\* The call has returned.
Applied(fn) == applied.fn = fn /\ applied.done

MatchesCalls ==
    {Call("matches", [device |-> device, selector |-> selector]) :
        device \in DeviceInformations, selector \in DeviceSelectors}

apply_matches ==
    /\ Called("matches")
    /\ gives(matches(applied.input.selector, applied.input.device))

\* What the backend's get_devices can answer: a list of devices or an error.
DeviceLists == UNION {[1..n -> DeviceInformations] : n \in 0..MaxDevices}
BackendErrors == {OsError("kIOReturnNoDevice"), Err("Unsupported")}
GetDevicesAnswers == {Ok(list) : list \in DeviceLists} \cup BackendErrors

\* A filter that returns on the first device it looks at, matching or not.
filter_down_first_seen(all_devices, selector, single_device, matching_devices) ==
    IF all_devices = <<>> THEN matching_devices
    ELSE IF matches(selector, Head(all_devices))
         THEN Append(matching_devices, Head(all_devices))
         ELSE matching_devices

\* The loop of Host::enumerate_devices over the backend's list.
RECURSIVE filter_down(_, _, _, _)
filter_down(all_devices, selector, single_device, matching_devices) ==
    IF all_devices = <<>> THEN matching_devices
    ELSE IF matches(selector, Head(all_devices))
         THEN IF single_device
              THEN Append(matching_devices, Head(all_devices))
              ELSE filter_down(Tail(all_devices), selector, single_device,
                               Append(matching_devices, Head(all_devices)))
         ELSE filter_down(Tail(all_devices), selector, single_device, matching_devices)

\* Host::enumerate_devices; `answer` is what backend.get_devices() returned.
Host_enumerate_devices(answer, selector, single_device) ==
    IF ~answer.ok THEN answer
    ELSE Ok(filter_down(answer.value, selector, single_device, <<>>))

\* Vec::pop, then Option::ok_or(DeviceNotFound).
pop_ok_or(candidates) ==
    IF candidates = <<>> THEN Err("DeviceNotFound")
    ELSE Ok(candidates[Len(candidates)])

\* Host::device
Host_device(answer, selector) ==
    IF ~Host_enumerate_devices(answer, selector, TRUE).ok
    THEN Host_enumerate_devices(answer, selector, TRUE)
    ELSE pop_ok_or(Host_enumerate_devices(answer, selector, TRUE).value)

\* Host::devices
Host_devices(answer, selector) == Host_enumerate_devices(answer, selector, FALSE)

HostCalls ==
    {Call(fn, [answer |-> answer, selector |-> selector]) :
        fn \in {"device", "devices"}, answer \in GetDevicesAnswers,
        selector \in DeviceSelectors}

apply_device ==
    /\ Called("device")
    /\ gives(Host_device(applied.input.answer, applied.input.selector))

apply_devices ==
    /\ Called("devices")
    /\ gives(Host_devices(applied.input.answer, applied.input.selector))

\* What a backend's release_kernel_driver can answer; the macOS backend
\* always gives the second.
ReleaseAnswers ==
    {Ok(0), Err("Unsupported"), Err("PermissionDenied"), OsError("kIOReturnNoDevice")}

\* A convenience variant that swallows every error.
release_kernel_driver_if_possible_always_ok(answer) == Ok(0)

\* Device::release_kernel_driver_if_possible; `answer` is what
\* backend.release_kernel_driver returned.
release_kernel_driver_if_possible(answer) ==
    IF answer = Err("Unsupported") THEN Ok(0) ELSE answer

ReleaseCalls ==
    {Call("release_kernel_driver_if_possible", [answer |-> answer, interface |-> i]) :
        answer \in ReleaseAnswers, i \in IfaceNumbers}

apply_release_kernel_driver_if_possible ==
    /\ Called("release_kernel_driver_if_possible")
    /\ gives(release_kernel_driver_if_possible(applied.input.answer))

\* Numbers wider than the model checker's integers are kept as two digits
\* <<high, low>> of base 2^16: the number is high * 2^16 + low.  A u32 has
\* high < 2^16; the u128 of Duration::as_millis may have more.
Limb == 2^16
U32_MAX == <<Limb - 1, Limb - 1>>
WideLeq(a, b) == a[1] < b[1] \/ (a[1] = b[1] /\ a[2] <= b[2])

\* std::time::Duration: whole seconds and the nanoseconds of the last second.
DurationSecs == {0, 1, 65, 4294966, 4294967, 4294968, 8589934, 8589935}
DurationNanos == {0, 999999, 1000000, 295999999, 296000000, 592000000, 999999999}
Durations == [nanos : DurationNanos, secs : DurationSecs]
DurationLeq(a, b) == a.secs < b.secs \/ (a.secs = b.secs /\ a.nanos <= b.nanos)

\* Duration::as_millis: secs * 1000 + nanos / 1_000_000, as a u128.
as_millis(timeout) ==
    LET low == (timeout.secs % Limb) * 1000 + timeout.nanos \div 1000000
    IN <<(timeout.secs \div Limb) * 1000 + low \div Limb, low % Limb>>

\* `as u32` keeps the low 32 bits.
as_u32(wide) == <<wide[1] % Limb, wide[2]>>

\* A conversion without the check against u32::MAX.
to_iokit_timeout_wrapping(timeout) == as_u32(as_millis(timeout))

to_iokit_timeout(timeout) ==
    IF ~WideLeq(as_millis(timeout), U32_MAX) THEN U32_MAX
    ELSE as_u32(as_millis(timeout))

\* The conversion is applied to two timeouts, the shorter one first.
TimeoutCalls ==
    {Call("to_iokit_timeout", <<shorter, longer>>) :
        <<shorter, longer>> \in {pair \in Durations \X Durations :
                                   DurationLeq(pair[1], pair[2])}}

apply_to_iokit_timeout ==
    /\ Called("to_iokit_timeout")
    /\ gives(<<to_iokit_timeout(applied.input[1]), to_iokit_timeout(applied.input[2])>>)

\* The discriminants of Direction, Type and Recipient (`as u8`).
DirectionAsU8 == [In |-> 1, Out |-> 0]
TypeAsU8 == [Class |-> 1, Standard |-> 0, Vendor |-> 2]
RecipientAsU8 == [Device |-> 0, Endpoint |-> 2, Interface |-> 1, Other |-> 3]

RequestTypes ==
    [direction : DOMAIN DirectionAsU8, recipient : DOMAIN RecipientAsU8,
     request_type : DOMAIN TypeAsU8]

\* `<<` and `|` on u8.
BitOf(x, k) == (x \div 2^k) % 2
shl_u8(x, n) == (x * 2^n) % 2^8
RECURSIVE or_from(_, _, _)
or_from(a, b, k) ==
    IF k = 8 THEN 0
    ELSE (IF BitOf(a, k) = 1 \/ BitOf(b, k) = 1 THEN 2^k ELSE 0) + or_from(a, b, k + 1)
or_u8(a, b) == or_from(a, b, 0)

\* An encoding that puts the type one bit too low.
request_type_to_u8_type_at_4(encoded) ==
    or_u8(or_u8(shl_u8(DirectionAsU8[encoded.direction], 7),
                shl_u8(TypeAsU8[encoded.request_type], 4)),
          RecipientAsU8[encoded.recipient])

\* impl From<&RequestType> for u8
request_type_to_u8(encoded) ==
    or_u8(or_u8(shl_u8(DirectionAsU8[encoded.direction], 7),
                shl_u8(TypeAsU8[encoded.request_type], 5)),
          RecipientAsU8[encoded.recipient])

\* Two request types are encoded.
EncodeCalls == {Call("request_type_to_u8", pair) : pair \in RequestTypes \X RequestTypes}

apply_request_type_to_u8 ==
    /\ Called("request_type_to_u8")
    /\ gives(<<request_type_to_u8(applied.input[1]), request_type_to_u8(applied.input[2])>>)

\* The handles IOIteratorNext gives to a loop over the registry, as the
\* number of IOObjectRelease calls each one gets.  A handle kept as a raw u32
\* gets none; one wrapped in an IoObject gets one when the wrapper is dropped.
\* The `while` loop of enumerate_devices from the k-th listed device on.
RECURSIVE enumerate_releases(_, _, _)
enumerate_releases(reg, k, acc) ==
    IF k > Len(reg) THEN acc
    ELSE LET device_info == get_device_information(reg[k])
         IN IF not_real_is_skipped(device_info) \/ device_info.ok
            THEN enumerate_releases(reg, k + 1, Append(acc, 0))
            ELSE Append(acc, 0)

\* The `while` loop of open_usb_device from the k-th listed device on; the
\* device found is wrapped (`IoService::new(device)`) and dropped by
\* open_usb_device_from_io_device when it returns.
RECURSIVE search_releases(_, _, _, _)
search_releases(reg, k, target, acc) ==
    IF k > Len(reg) THEN acc
    ELSE IF reg[k].location = NoLocation
         THEN search_releases(reg, k + 1, target, Append(acc, 0))
    ELSE IF ~location_matches(reg[k].location, target)
         THEN search_releases(reg, k + 1, target, Append(acc, 0))
         ELSE Append(acc, 1)

HandleCalls ==
    {Call("enumerate_devices", [reg |-> reg, target |-> NoLocation]) : reg \in Registries}
        \cup {Call("open_usb_device", [reg |-> reg, target |-> target]) :
                  reg \in Registries, target \in Locations}

apply_enumerate_devices ==
    /\ Called("enumerate_devices")
    /\ gives(enumerate_releases(applied.input.reg, 1, <<>>))

apply_open_usb_device ==
    /\ Called("open_usb_device")
    /\ gives(search_releases(applied.input.reg, 1, applied.input.target, <<>>))

\* Every endpoint argument a u8 can hold, as a number or a full address.
EndpointBytes == 0..255

LookupCalls ==
    {Call(fn, endpoint) :
        fn \in {"resources_for_in_endpoint", "resources_for_out_endpoint"},
        endpoint \in EndpointBytes}

\* The lookup read and read_nonblocking make before their OS call.
apply_resources_for_in_endpoint ==
    /\ Called("resources_for_in_endpoint")
    /\ gives(resources_for_in_endpoint(applied.input))

\* The lookup write and write_nonblocking make before their OS call.
apply_resources_for_out_endpoint ==
    /\ Called("resources_for_out_endpoint")
    /\ gives(resources_for_out_endpoint(applied.input))

(***************************************************************************)
(* Specifications.                                                         *)
(***************************************************************************)
Init == DeviceInit /\ FutureInit /\ HostInit /\ PureInit

\* The blocking control transfers with every input.
BlockingControlStep ==
    \E len \in Lengths, t \in BOOLEAN, rc \in BlockingCodes, done \in {0, SomeLength} :
        \/ control_read(len, t, rc, done)
        \/ control_write(len, t, rc, done)

\* The non-blocking submissions with every input, the return of a call, the
\* end of a call by a panic, and the drop of the device.
SubmitStep ==
    \/ \E len \in Lengths, t \in BOOLEAN, rc \in SubmitCodes :
           \/ \E borrowed \in BOOLEAN : control_read_nonblocking(len, t, rc, borrowed)
           \/ control_write_nonblocking(len, t, rc)
    \/ \E ep \in EndpointArgs, len \in Lengths, t \in BOOLEAN, rc \in SubmitCodes :
           \/ \E borrowed \in BOOLEAN : read_nonblocking(ep, len, t, rc, borrowed)
           \/ write_nonblocking(ep, len, t, rc)
    \/ Return
    \/ Unwound
    \/ DropDevice
    \/ ReleaseFields

CallerStep == BlockingControlStep \/ SubmitStep

\* The caller thread next to the OS and the event-loop thread: a blocking
\* control transfer keeps the caller inside the backend while they run, and
\* touches no request, so one input each stands for it here; TransferSpec
\* takes the blocking transfers with every input.
ConcurrentCallerStep ==
    \/ control_read(0, FALSE, "kIOReturnSuccess", 0)
    \/ control_write(0, FALSE, "kIOReturnSuccess", 0)
    \/ SubmitStep

OsStep ==
    \E r \in Requests, rc \in CompletionCodes, done \in {0, SomeLength} :
        OsComplete(r, rc, done)

LoopStep ==
    \/ run_event_loop_begin
    \/ \E r \in Requests : delegate_iousb_callback(r, event_loop_thread)
    \/ SliceEnd
    \/ CheckFlag
    \/ StartSlice

Next == ConcurrentCallerStep \/ OsStep \/ LoopStep

Spec == Init /\ [][Next]_vars

\* The caller thread alone, with the blocking transfers: the endpoint lookup
\* and the OS call of a transfer take place on the caller thread and do not
\* depend on what the OS and the event-loop thread do meanwhile.
TransferStep ==
    \/ \E ep \in EndpointArgs, t \in BOOLEAN, rc \in BlockingCodes :
           \/ read(ep, SomeLength, t, rc, SomeLength)
           \/ write(ep, SomeLength, t, rc)
    \/ \E ep \in EndpointArgs, rc \in SubmitCodes : clear_stall(ep, rc)

TransferNext == CallerStep \/ TransferStep

TransferSpec == Init /\ [][TransferNext]_vars

\* The same operations with one input each where the input has no bearing on
\* the event-loop thread: one buffer length, no timeout, one endpoint per
\* direction.  The OS answers and the interleavings stay as in Next.
LoopCallerStep ==
    \/ \E rc \in BlockingCodes :
           \/ control_read(0, FALSE, rc, SomeLength)
           \/ control_write(0, FALSE, rc, SomeLength)
    \/ \E rc \in SubmitCodes :
           \/ \E borrowed \in BOOLEAN : control_read_nonblocking(0, FALSE, rc, borrowed)
           \/ control_write_nonblocking(0, FALSE, rc)
           \/ \E borrowed \in BOOLEAN : read_nonblocking(IN_BIT + 1, 0, FALSE, rc, borrowed)
           \/ write_nonblocking(2, 0, FALSE, rc)
    \/ Return
    \/ Unwound
    \/ DropDevice
    \/ ReleaseFields

LoopOsStep ==
    \E r \in Requests, rc \in CompletionCodes : OsComplete(r, rc, SomeLength)

LoopNext == LoopCallerStep \/ LoopOsStep \/ LoopStep

\* The event-loop thread is scheduled, and CFRunLoopRunInMode returns when
\* its time slice is over.
FairSpec ==
    /\ Init /\ [][LoopNext]_vars
    /\ WF_vars(run_event_loop_begin)
    /\ WF_vars(SliceEnd)
    /\ WF_vars(CheckFlag)
    /\ WF_vars(StartSlice)

PollerStep ==
    \/ \E w \in Wakers : PollBegin(w)
    \/ \E w \in Wakers : PollAgain(w)
    \/ PollLock
    \/ PollCheck
    \/ PollStoreWaker
    \/ PollTake
    \/ Schedule
    \/ SpuriousSchedule

CompleterStep ==
    \/ \E res \in CallbackResults : CompleteBegin(res)
    \/ CompleteLock
    \/ CompleteStore
    \/ CompleteWake

FutureNext == PollerStep \/ CompleterStep

FutureSpec == Init /\ [][FutureNext]_vars

\* The executor polls a runnable task and runs a woken one; a thread inside
\* poll or complete runs on, and a lock that is free is obtained.
FutureFairSpec ==
    /\ FutureSpec
    /\ WF_vars((\E w \in Wakers : PollBegin(w)))
    /\ WF_vars(PollLock)
    /\ WF_vars(PollCheck)
    /\ WF_vars(PollStoreWaker)
    /\ WF_vars(PollTake)
    /\ WF_vars(Schedule)
    /\ WF_vars(CompleteLock)
    /\ WF_vars(CompleteStore)
    /\ WF_vars(CompleteWake)

\* The host side: the application enumerates and opens a device; the OS
\* answers every call.  The devices listed do not change between an
\* enumeration and the call that follows it.
\* After an open that failed the application calls open again while at most
\* one device is listed.
Relisted == {reg \in Registries : Len(reg) <= 1}

Listed == IF lastOp.op = "get_devices" THEN {enumIn}
          ELSE IF hostPc = "failed" THEN Relisted
          ELSE Registries

EnumStep ==
    \/ \E reg \in Listed : \E it \in IteratorAnswers(reg) :
           get_devices(reg, it[1], it[2])
    \/ \E reg \in Listed : \E it \in IteratorAnswers(reg) : \E target \in Locations :
           open_usb_device(reg, it[1], it[2], target)

OpenStep ==
    \/ \E rc \in PluginCodes, raw_device_plugin, raw_device \in {0, 1} :
           create_plugin(rc, raw_device_plugin, raw_device)
    \/ \E rc \in InterfaceCodes : open_device(rc)
    \/ \E rc, rcClose \in InterfaceCodes : device_notification_source(rc, rcClose)
    \/ \E rc, rcClose \in InterfaceCodes : create_interface_iterator(rc, rcClose)

\* The answers the OS gives during one iteration of populate_interfaces.
\* Answers of calls the iteration does not reach are left at their first
\* value; `held` tells whether a dropped device would drop a placeholder;
\* rcClose is the answer of the USBDeviceClose of a dropped device.
\* Only a refused interface reaches the call through the null pointer, and
\* it has no endpoints to count.
AnswerRecords(ubs, counts) ==
    [rc : PluginCodes, raw_plugin : {0, 1}, raw_interface : {0, 1},
     ub : ubs, ubDrop : DropOutcomes, rcSource : InterfaceCodes,
     rcCount : InterfaceCodes, count : counts, failingPipe : counts,
     failingCall : {"USBInterfaceOpen", "GetPipePropertiesV2"},
     rcClose : InterfaceCodes]

PopulateAnswers(held) ==
    {a \in AnswerRecords({"returns"}, 0..MaxEndpoints)
                \cup AnswerRecords(UbOutcomes, {0}) :
        LET service == interface_from_service(a.rc, a.raw_plugin, a.raw_interface)
            denied == service = Err("PermissionDenied")
            sourced == (service.ok \/ (denied /\ a.ub = "returns"))
            counted == service.ok /\ from_io_return(a.rcSource).ok
            local == denied /\ a.ub = "returns" /\ a.ubDrop = "crash"
            closed == \/ ~service.ok /\ (~denied \/ a.ub = "elided")
                      \/ sourced /\ ~from_io_return(a.rcSource).ok /\ ~local
        IN /\ ~from_io_return(a.rc).ok => a.raw_plugin = 1
           /\ (~from_io_return(a.rc).ok \/ a.raw_plugin = 0) => a.raw_interface = 1
           /\ ~denied => a.ub = "returns"
           /\ ~sourced => a.rcSource = "kIOReturnSuccess"
           /\ ~counted => a.rcCount = "kIOReturnSuccess"
           /\ (~counted \/ ~from_io_return(a.rcCount).ok) => a.count = 0
           /\ a.failingPipe <= a.count
           /\ a.failingPipe = 0 => a.failingCall = "USBInterfaceOpen"
           /\ (~held /\ (~denied \/ a.ub # "returns")) => a.ubDrop = "returns"
           /\ ~closed => a.rcClose = "kIOReturnSuccess"}

\* The two sets of answers, enumerated once.
AnswersHeld == {a : a \in PopulateAnswers(TRUE)}
AnswersNotHeld == {a : a \in PopulateAnswers(FALSE)}

PopulateStep ==
    \/ \E a \in (IF PlaceholderHeld THEN AnswersHeld ELSE AnswersNotHeld) :
           populate_interface(a)
    \/ populate_done

HostNext == EnumStep \/ OpenStep \/ PopulateStep

HostSpec == Init /\ [][HostNext]_vars

\* The application claims and unclaims interfaces of a device that open has
\* returned.  The device is any that populate_interfaces can build: up to
\* MaxIfaces interfaces, each one usable (its endpoints all recorded) or a
\* permission-denied placeholder.
OpenedDevice(n, kinds) ==
    /\ hostPc = "opened"
    /\ lastOp = [op |-> "open", arg |-> 1, os |-> "kIOReturnSuccess", result |-> Ok(0)]
    /\ enumIn = <<>>
    /\ devices = <<>>
    /\ matched = TRUE
    /\ skipped = 0
    /\ attempts = 1
    /\ sleeps = 0
    /\ deviceOpened = TRUE
    /\ threadsSpawned = 1
    /\ sources = 1 + n
    /\ ifIndex = n
    /\ interfaces = [i \in IfaceNumbers |-> IF i < n THEN kinds[i] ELSE NoInterface]
    /\ metadata = UNION {populate_endpoint_metadata({}, kinds[i], i, "kIOReturnSuccess",
                                                    MaxEndpoints, 0,
                                                    "USBInterfaceOpen").entries :
                             i \in 0..(n - 1)}
    /\ osOpen = [i \in IfaceNumbers |-> i < n /\ ~kinds[i].deny_all]
    /\ claimOpens = [i \in IfaceNumbers |-> 0]
    /\ closeCalls = [i \in IfaceNumbers |-> 0]
    /\ claimsOk = [i \in IfaceNumbers |-> 0]
    /\ unclaims = [i \in IfaceNumbers |-> FALSE]
    /\ metadataFailed = FALSE
    /\ deniedSeen = \E i \in 0..(n - 1) : kinds[i].deny_all

ClaimInit ==
    /\ DeviceInit
    /\ FutureInit
    /\ PureInit
    /\ \E n \in 0..MaxIfaces :
           \E kinds \in [0..(n - 1) -> {OsInterface_new, new_denying_placeholder}] :
               OpenedDevice(n, kinds)

ClaimStep ==
    \E interface \in IfaceNumbers, rc \in InterfaceCodes :
        \/ claim_interface(interface, rc)
        \/ unclaim_interface(interface, rc)

ClaimSpec == ClaimInit /\ [][ClaimStep]_vars

\* The USBInterfaceOpen calls made on interfaces 0..n since their last unclaim.
RECURSIVE OpenedClaims(_)
OpenedClaims(n) == IF n < 0 THEN 0 ELSE claimOpens[n] + OpenedClaims(n - 1)

\* The endpoint numbers a transfer is asked for: those of interface 0, and
\* one that no device of the model has.
OpenedEndpoints == 0..MaxEndpoints

\* Every operation on the opened device, with at most MaxOpenedClaims claims
\* outstanding between unclaims.
OpenedStep ==
    \/ \E interface \in IfaceNumbers, rc \in InterfaceCodes :
           \/ OpenedClaims(MaxIfaces) < MaxOpenedClaims /\ claim_interface(interface, rc)
           \/ unclaim_interface(interface, rc)
           \/ set_alternate_setting(interface, rc)
    \/ \E address \in AddressArgs, rc \in InterfaceCodes :
           clear_stall_opened(address, rc)
    \/ \E rc \in InterfaceCodes :
           \/ set_active_configuration(rc)
           \/ reset_device(rc)
    \/ \E interface \in IfaceNumbers : release_kernel_driver(interface)
    \/ \E endpoint \in OpenedEndpoints, rc \in InterfaceCodes :
           \/ \E size \in Sizes : read_opened(endpoint, rc, size)
           \/ write_opened(endpoint, rc)
           \/ \E borrowed \in BOOLEAN : read_nonblocking_opened(endpoint, borrowed, rc)
           \/ write_nonblocking_opened(endpoint, rc)
    \/ \E long \in BOOLEAN, rc \in InterfaceCodes :
           \/ \E wLenDone \in Sizes : control_read_opened(long, rc, wLenDone)
           \/ control_write_opened(long, rc)
           \/ \E borrowed \in BOOLEAN : control_read_nonblocking_opened(borrowed, long, rc)
           \/ control_write_nonblocking_opened(long, rc)
    \/ unwound_opened
    \/ \E ub \in DropOutcomes, rc \in InterfaceCodes :
           \/ drop_opened(ub, rc)
           \/ drop_unwinding(ub, rc)

OpenedSpec == ClaimInit /\ [][OpenedStep]_vars

\* The whole life of one Device: the application opens the one device
\* listed, as often as the open fails, and then uses what open returned.
LifeRegistry == <<[location |-> 1, readable |-> TRUE]>>

LifeOpen == open_usb_device(LifeRegistry, "kIOReturnSuccess", 1, 1)

\* The operations on the opened device: claims and unclaims of every
\* interface number, with at most one USBInterfaceOpen between two unclaims,
\* and each other operation on interface 0 and its endpoints, the OS
\* answering kIOReturnSuccess.
LifeUseStep ==
    \/ \E interface \in IfaceNumbers, rc \in InterfaceCodes :
           \/ OpenedClaims(MaxIfaces) = 0 /\ claim_interface(interface, rc)
           \/ unclaim_interface(interface, rc)
    \/ set_alternate_setting(0, "kIOReturnSuccess")
    \/ release_kernel_driver(0)
    \/ set_active_configuration("kIOReturnSuccess")
    \/ reset_device("kIOReturnSuccess")
    \/ \E endpoint \in OpenedEndpoints :
           \/ clear_stall_opened(address_for_out_endpoint(endpoint), "kIOReturnSuccess")
           \/ read_opened(endpoint, "kIOReturnSuccess", 1)
           \/ write_opened(endpoint, "kIOReturnSuccess")
           \/ \E borrowed \in BOOLEAN :
                  read_nonblocking_opened(endpoint, borrowed, "kIOReturnSuccess")
           \/ write_nonblocking_opened(endpoint, "kIOReturnSuccess")
    \/ control_read_opened(FALSE, "kIOReturnSuccess", 1)
    \/ control_write_opened(FALSE, "kIOReturnSuccess")
    \/ \E borrowed \in BOOLEAN :
           control_read_nonblocking_opened(borrowed, FALSE, "kIOReturnSuccess")
    \/ control_write_nonblocking_opened(FALSE, "kIOReturnSuccess")
    \/ unwound_opened
    \/ \E ub \in DropOutcomes, rc \in InterfaceCodes :
           \/ drop_opened(ub, rc)
           \/ drop_unwinding(ub, rc)

\* The steps of open before the interfaces are populated; a no-resources
\* condition that has lasted for two attempts persists.
LifeOpenStep ==
    \/ \E rc \in PluginCodes, raw_device_plugin, raw_device \in {0, 1} :
           /\ attempts > 1 => rc = "kIOReturnNoResources"
           /\ create_plugin(rc, raw_device_plugin, raw_device)
    \/ \E rc \in InterfaceCodes : open_device(rc)
    \/ \E rc, rcClose \in InterfaceCodes : device_notification_source(rc, rcClose)
    \/ \E rc, rcClose \in InterfaceCodes : create_interface_iterator(rc, rcClose)

\* The answers of the OS while the interfaces are populated: an interface
\* has MaxEndpoints endpoints, and what fails while they are read is the
\* count or the opening of the interface for the last of them.
LifeAnswers(held) ==
    {a \in PopulateAnswers(held) :
        /\ a.failingCall = "USBInterfaceOpen"
        /\ a.failingPipe \in {0, a.count}
        /\ (a.rcCount = "kIOReturnSuccess" /\ a.count = 0) =>
               ~interface_from_service(a.rc, a.raw_plugin, a.raw_interface).ok
               \/ ~from_io_return(a.rcSource).ok}

LifeAnswersHeld == {a : a \in LifeAnswers(TRUE)}
LifeAnswersNotHeld == {a : a \in LifeAnswers(FALSE)}

\* The devices of LifeSpec have up to two interfaces, so that an interface
\* of each kind can be one of them.
LifeIfaces == Cardinality({OsInterface_new, new_denying_placeholder})

LifePopulateStep ==
    \/ \E a \in (IF PlaceholderHeld THEN LifeAnswersHeld ELSE LifeAnswersNotHeld) :
           ifIndex < LifeIfaces /\ populate_interface(a)
    \/ populate_done

LifeNext == LifeOpen \/ LifeOpenStep \/ LifePopulateStep \/ LifeUseStep

LifeSpec == Init /\ [][LifeNext]_vars

\* A call of one of the functions is pending.
PureSpecInit ==
    /\ DeviceInit
    /\ FutureInit
    /\ HostInit
    /\ \/ applied \in MatchesCalls
       \/ applied \in HostCalls
       \/ applied \in ReleaseCalls
       \/ applied \in TimeoutCalls
       \/ applied \in EncodeCalls
       \/ applied \in HandleCalls
       \/ applied \in LookupCalls

\* One function that keeps no state returns.
PureNext ==
    \/ apply_matches
    \/ apply_device
    \/ apply_devices
    \/ apply_release_kernel_driver_if_possible
    \/ apply_to_iokit_timeout
    \/ apply_request_type_to_u8
    \/ apply_enumerate_devices
    \/ apply_open_usb_device
    \/ apply_resources_for_in_endpoint
    \/ apply_resources_for_out_endpoint

PureSpec == PureSpecInit /\ [][PureNext]_vars

\* The thread inside open keeps running: every OS call it makes returns.
HostFairSpec ==
    /\ HostSpec
    /\ WF_vars(OpenStep)
    /\ WF_vars(populate_done)

(***************************************************************************)
(* Properties.                                                             *)
(***************************************************************************)
ErrorKinds == {"Unsupported", "DeviceNotFound", "DeviceNotOpen", "DeviceNotReal",
               "DeviceReserved", "Stalled", "InvalidEndpoint", "InvalidInterface",
               "TimedOut", "InvalidArgument", "Aborted", "Overrun",
               "PermissionDenied", "OsError", "UnspecifiedOsError"}

\* The result of r's submission, once the OS call has been made or skipped.
Submitted(r) == IF call.req = r THEN call.result ELSE submit[r]

\* C1: the callback of an accepted non-blocking submission is never invoked
\* twice, it receives exactly one of Ok(byte count) (the OS status was
\* success) or Err(kind), and it is invoked once the OS has reported the
\* request's completion: the event-loop thread, which alone dispatches the
\* completions, does not end while a reported completion waits for it.
C1_CallbackExactlyOnce ==
    \A r \in Requests :
        /\ cbCount[r] <= 1
        /\ cbCount[r] = 1 <=> os[r] = "delivered"
        /\ os[r] # "none" => Submitted(r) = Ok(0)
        /\ cbCount[r] = 0 => cbResult[r] = NoResult
        /\ cbCount[r] = 1 =>
              /\ cbResult[r].ok <=> osrc[r] = "kIOReturnSuccess"
              /\ cbResult[r].ok => cbResult[r] = Ok(oslen[r])
              /\ ~cbResult[r].ok => cbResult[r].kind \in ErrorKinds
        /\ os[r] = "completed" => loopPc # "exited"

\* C2 as claimed: a callback runs only on the event-loop thread, and never
\* before its submission call has returned to the caller.
C2_NeverBeforeReturn ==
    \A r \in Requests :
        cbCount[r] > 0 => cbThread[r] = "event_loop" /\ submit[r] # NoResult

\* C2 as amended: a callback runs only on the event-loop thread, never on
\* the submitting thread, and never before its request has been packaged
\* and accepted by the OS; a submission that has returned Ok did hand its
\* request to the OS (and returns whether or not the OS has completed it).
C2_OnlyOnEventLoopThread ==
    \A r \in Requests :
        /\ cbCount[r] > 0 =>
              /\ cbThread[r] = "event_loop"
              /\ cbThread[r] # "caller"
              /\ leaks[r] = 1
              /\ os[r] = "delivered"
        /\ cbCount[r] = 0 => cbThread[r] = "none"
        /\ submit[r] = Ok(0) => os[r] \in {"inflight", "completed", "delivered"}

\* A submission has returned while its request is in flight and its callback
\* has not run; another's callback has run on the event-loop thread.
C2_Witness ==
    \E r, q \in Requests :
        /\ submit[r] = Ok(0) /\ os[r] = "inflight" /\ cbCount[r] = 0
        /\ cbCount[q] = 1 /\ cbThread[q] = "event_loop" /\ submit[q] = Ok(0)

\* C3: every token is reclaimed at most once, and only a token that
\* leak_to_iokit produced is reclaimed.
C3_ReclaimedAtMostOnce ==
    \A r \in Requests : reclaims[r] <= 1 /\ reclaims[r] <= leaks[r] /\ leaks[r] <= 1

\* After submissions, completions and the destruction of the device, one
\* token was reclaimed once and another is still with the OS.
C3_Witness ==
    \E r, q \in Requests :
        /\ devState = "released"
        /\ leaks[r] = 1 /\ reclaims[r] = 1
        /\ leaks[q] = 1 /\ reclaims[q] = 0 /\ os[q] = "completed"

\* C4: no token is leaked: the token of a submission that returned an error
\* has been reclaimed, and once the device is destroyed and its event loop
\* has exited no token is outstanding.
C4_NoTokenLeaked ==
    \A r \in Requests :
        /\ (submit[r] # NoResult /\ ~submit[r].ok) => reclaims[r] = leaks[r]
        /\ (devState = "released" /\ loopPc = "exited") => reclaims[r] = leaks[r]

\* C5: no poll begun after the completion returns Pending; the poll that
\* returns Ready returns exactly the result the callback completed the
\* future with; and a poll panics only after Ready has been returned, so the
\* first poll after the completion is the one that returns Ready.
C5_ReadyAfterCompletion ==
    /\ ~pendingAfterDone
    /\ ReadyPolls # {} => readyValue = completeArg /\ completePc = "done"
    /\ ReadyPolls = {} => readyValue = NoResult
    /\ \A i \in DOMAIN pollLog :
           pollLog[i] = "Panic" => \E j \in 1..(i - 1) : pollLog[j] = "Ready"

\* Completion after two Pending polls, then Ready with the completed result.
C5_Witness ==
    /\ pollLog = <<"Pending", "Pending", "Ready">>
    /\ completeArg = Err("TimedOut")
    /\ readyValue = Err("TimedOut")

\* The other case of C5: completion before the first poll.
C5_WitnessBeforeFirstPoll ==
    /\ pollLog = <<"Ready">>
    /\ pollAfterDone
    /\ readyValue = Ok(SomeLength)

\* C6: once the completion has happened, the task obtains Ready although it
\* polls only when it is runnable (first, or woken); and a waker stored by
\* the latest Pending poll has been invoked by the completion.
C6_NoLostWakeup ==
    /\ (completePc = "done") ~> (ReadyPolls # {})
    /\ [](completePc = "done" /\ lastPendingWaker # 0
            => wakeCount[lastPendingWaker] >= 1)
    /\ [](task = "parked" /\ completePc = "done" => notified)

\* The task was parked by a Pending poll, woken by the completion (never
\* re-polled without a wake), and obtained Ready.
C6_Witness ==
    /\ pollLog = <<"Pending", "Ready">>
    /\ spurious = 0
    /\ \E w \in Wakers : wakeCount[w] = 1 /\ lastPendingWaker = w

\* C7: at most one poll returns Ready, and every poll that returns after it
\* panics.
C7_ResultHandedOutOnce ==
    /\ Cardinality(ReadyPolls) <= 1
    /\ \A i, j \in DOMAIN pollLog :
           (i < j /\ pollLog[i] = "Ready") => pollLog[j] = "Panic"

\* Ready, then two more polls, both panicking.
C7_Witness ==
    /\ Len(pollLog) >= 3
    /\ pollLog[Len(pollLog) - 2] = "Ready"
    /\ pollLog[Len(pollLog) - 1] = "Panic"
    /\ pollLog[Len(pollLog)] = "Panic"

BlockingControl == {"control_read", "control_write"}

NonblockingControl == {"control_read_nonblocking", "control_write_nonblocking"}

\* C8: a blocking control transfer with more than 65535 bytes fails with
\* Overrun without any OS device request; one with at most 65535 bytes
\* passes the check: its device request is issued with that wLength.
C8_BlockingControlOverrun ==
    call.op \in BlockingControl =>
        /\ call.len > 65535 => call.result = Err("Overrun") /\ call.fn = "none"
        /\ call.len <= 65535 =>
              /\ call.fn \in {"DeviceRequest", "DeviceRequestTO"}
              /\ call.wLength = call.len

\* A control_write of 65536 bytes has failed with Overrun.
C8_Witness ==
    /\ call.op = "control_write"
    /\ call.len = 65536
    /\ call.result = Err("Overrun")
    /\ call.fn = "none"

\* A control_read of 65535 bytes was issued (and the OS answered Overrun).
C8_WitnessAccepted ==
    /\ call.op = "control_read"
    /\ call.len = 65535
    /\ call.fn = "DeviceRequestTO"
    /\ call.result = Err("Overrun")

\* C9: a non-blocking control submission with more than 65535 bytes returns
\* Overrun from the call itself; nothing is handed to the OS, no token is
\* created, and its callback is never invoked.
C9_NonblockingControlOverrun ==
    /\ (call.op \in NonblockingControl /\ call.len > 65535) =>
           call.result = Err("Overrun") /\ call.fn = "none"
    /\ \A r \in Requests :
           oversized[r] =>
               /\ Submitted(r) = Err("Overrun")
               /\ leaks[r] = 0
               /\ os[r] = "none"
               /\ cbCount[r] = 0

\* C10: destroying the device, by its owner or by the unwinding of a panic
\* in one of its calls, sets the termination flag, and the event-loop thread
\* then exits: it starts at most one slice after the flag was set, exits
\* when it observes the flag, and once exited starts nothing again.
C10_LoopExitsWithinOneSlice ==
    /\ (devState # "open") ~> (loopPc = "exited")
    /\ [](devState # "open" => termination_flag)
    /\ [](slicesAfterFlag <= 1)
    /\ [](loopPc = "exited" => termination_flag)
    /\ [][loopPc = "exited" => loopPc' = "exited"]_vars

\* The device was destroyed by the unwinding of a panic while the thread
\* was between slices: the thread ran one further slice and exited.
C10_Witness ==
    /\ loopPc = "exited"
    /\ slicesAfterFlag = 1
    /\ devState = "released"
    /\ callerPc = "panicked"

C12_ClaimedOnceAndRecorded ==
    /\ \A i \in IfaceNumbers : claimsOk[i] >= 1 => interfaces[i].is_open
    /\ (/\ lastOp.op = "claim_interface"
        /\ lastOp.result.ok
        /\ claimsOk[lastOp.arg] >= 2) => lastOp.os = "none"

\* C13: after a successful claim_interface(i) followed by
\* unclaim_interface(i) an OS close call has been issued for interface i.
C13_UnclaimCloses ==
    \A i \in IfaceNumbers : unclaims[i] => closeCalls[i] >= 1

\* C14: claim_interface on a permission-denied placeholder returns
\* PermissionDenied without an OS call, and whatever claim and unclaim calls
\* were made before, no OS open or close call was ever issued for the
\* placeholder and it is still closed.
C14_PlaceholderClaimDenied ==
    \A i \in IfaceNumbers :
        interfaces[i].deny_all =>
            /\ claimOpens[i] = 0
            /\ closeCalls[i] = 0
            /\ claimsOk[i] = 0
            /\ ~interfaces[i].is_open
            /\ ~osOpen[i]
            /\ hostPc # "panicked"
            /\ (lastOp.op = "claim_interface" /\ lastOp.arg = i) =>
                   (lastOp.result = Err("PermissionDenied") /\ lastOp.os = "none")
            /\ (lastOp.op = "unclaim_interface" /\ lastOp.arg = i) =>
                   (lastOp.result = Ok(0) /\ lastOp.os = "none")

\* A placeholder was claimed, after a usable interface of the same device
\* had been claimed and another unclaimed.
C14_Witness ==
    /\ lastOp.op = "claim_interface"
    /\ interfaces[lastOp.arg].deny_all
    /\ lastOp.result = Err("PermissionDenied")
    /\ \E j \in IfaceNumbers : unclaims[j] \/ claimsOk[j] >= 1

\* C15: an interface refused with PermissionDenied is no reason for open to
\* end other than by returning the device: open of a device with such an
\* interface does not take the process down, and does not fail with the
\* refusal's error.
C15_DeniedInterfaceKept ==
    deniedSeen =>
        /\ hostPc # "crashed"
        /\ ~(hostPc = "failed" /\ lastOp.result = Err("PermissionDenied"))

\* C16: an OS call that fails while populate_endpoint_metadata runs for an
\* interface makes open fail.
C16_MetadataFailureFailsOpen ==
    metadataFailed => ~(hostPc = "opened" /\ lastOp.op = "open" /\ lastOp.result.ok)

\* open is inside open_usb_device_from_io_device / has returned or died.
OpenRunning == hostPc \in {"plugin", "device", "source", "iterator", "populate"}
OpenEnded == hostPc \in {"opened", "failed", "crashed", "panicked"}

\* Every answer the OS gave to this open was no-resources, and open returned.
GaveUp ==
    /\ hostPc = "failed"
    /\ lastOp.op = "open"
    /\ attempts >= 1
    /\ sleeps = attempts

\* C17 as claimed: an open that gives up has made RetryAttempts retries after
\* its first attempt, and has slept once before each retry and at no other
\* time.
C17_FiveRetriesSleepBeforeEach ==
    GaveUp => (attempts - 1 = RetryAttempts /\ sleeps = attempts - 1)

\* C17: open asks the OS for the device plugin at most RetryAttempts times
\* in all (a first attempt and RetryAttempts - 1 retries), sleeping once
\* after every no-resources answer, the last one included; when every
\* answer was no-resources it returns DeviceNotFound; and an open that has
\* started always ends.
C17_BoundedRetries ==
    /\ [](/\ attempts <= RetryAttempts
          /\ sleeps <= attempts
          /\ hostPc = "plugin" => (sleeps = attempts /\ attempts < RetryAttempts)
          /\ GaveUp => (attempts = RetryAttempts
                        /\ lastOp.result = Err("DeviceNotFound")))
    /\ (OpenRunning ~> OpenEnded)

\* The OS answered no-resources to every attempt and open gave up.
C17_Witness ==
    /\ GaveUp
    /\ matched
    /\ sleeps = RetryAttempts
    /\ lastOp.result = Err("DeviceNotFound")
    /\ threadsSpawned = 0

\* The search of open_usb_device went through the listed devices and
\* handed none of them on.
SearchEnded ==
    /\ lastOp.op = "open"
    /\ lastOp.os = "kIOReturnSuccess"
    /\ hostPc = "failed"
    /\ attempts = 0

\* C18: an open whose locator matches none of the listed devices returns
\* DeviceNotFound (the iterator having been obtained) and asks for no device
\* plugin; the search passed over every listed device that has no location
\* ID; and the call opens no OS device, opens no interface, collects no
\* notification source and starts no event-loop thread: what an earlier
\* open left open at the OS is as it was.
C18_UnmatchedNotFound ==
    /\ []((lastOp.op = "open" /\ ~matched) =>
            /\ hostPc = "failed"
            /\ attempts = 0
            /\ threadsSpawned = 0
            /\ sources = 0
            /\ interfaces = [i \in IfaceNumbers |-> NoInterface]
            /\ lastOp.os = "kIOReturnSuccess" =>
                   /\ lastOp.result = Err("DeviceNotFound")
                   /\ skipped = Cardinality({k \in DOMAIN enumIn :
                                               enumIn[k].location = NoLocation})
            /\ lastOp.os # "kIOReturnSuccess" => lastOp.result = OsError(lastOp.os))
    /\ [][(hostPc \in {"idle", "failed"} /\ lastOp'.op = "open" /\ ~matched') =>
            /\ deviceOpened' = deviceOpened
            /\ osOpen' = osOpen
            /\ threadsSpawned' = threadsSpawned
            /\ sources' = sources]_vars

\* The search ended without a match after passing over a device without a
\* location ID and a device with another locator.
C18_Witness ==
    /\ SearchEnded
    /\ ~matched
    /\ lastOp.result = Err("DeviceNotFound")
    /\ skipped >= 1
    /\ \E k \in DOMAIN enumIn : enumIn[k].location \notin {NoLocation, lastOp.arg}

\* The listed devices that have a location ID, in iteration order.
HasLocation(device) == device.location # NoLocation
Located == SelectSeq(enumIn, HasLocation)
AllReadable == \A k \in DOMAIN enumIn : enumIn[k].readable

\* C19: get_devices, given the device iterator and devices whose vendor and
\* product id can be read, returns exactly the devices that have a location
\* ID, in iteration order; a device without one is left out and is never
\* the error get_devices returns.
C19_EnumerationSkipsUnlocated ==
    lastOp.op = "get_devices" =>
        /\ lastOp.result # Err("DeviceNotReal")
        /\ (lastOp.os = "kIOReturnSuccess" /\ AllReadable) =>
               /\ lastOp.result = Ok(Len(Located))
               /\ devices = [k \in 1..Len(Located) |-> Located[k].location]
        /\ ~lastOp.result.ok =>
               /\ devices = <<>>
               /\ \/ lastOp.result = OsError(lastOp.os)
                  \/ /\ lastOp.result = Err("UnspecifiedOsError")
                     /\ ~AllReadable

\* get_devices returned the located device of a list that also held a
\* device without a location ID.
C19_Witness ==
    /\ lastOp.op = "get_devices"
    /\ lastOp.result.ok
    /\ Len(devices) >= 1
    /\ Len(enumIn) > Len(devices)
    /\ enumIn[1].location = NoLocation

\* The endpoint address has no entry in the endpoint metadata.
Unknown(address) == address \notin DOMAIN endpoint_metadata

\* The call made in this step returned InvalidEndpoint without reaching the
\* OS: no OS function was called, nothing was packaged, nothing is in flight.
RejectedUnknown ==
    /\ callerPc' = "returning"
    /\ call'.result = Err("InvalidEndpoint")
    /\ call'.fn = "none"
    /\ leaks' = leaks
    /\ os' = os

\* C20: whenever the caller thread enters a backend call, be it to return
\* from it or to panic in it: a read, write, clear_stall or non-blocking
\* read or write whose endpoint address has no entry in the endpoint
\* metadata returns InvalidEndpoint (it does not panic, whether or not the
\* caller still holds a borrow of the buffer) and makes no OS call.
C20_UnknownEndpointRejected ==
    [][(callerPc = "idle" /\ callerPc' # "idle") =>
       \A ep \in EndpointArgs, t \in BOOLEAN :
          /\ \A rc \in BlockingCodes :
                /\ (Unknown(address_for_in_endpoint(ep))
                    /\ read(ep, SomeLength, t, rc, SomeLength)) => RejectedUnknown
                /\ (Unknown(address_for_out_endpoint(ep))
                    /\ write(ep, SomeLength, t, rc)) => RejectedUnknown
          /\ \A rc \in SubmitCodes :
                /\ (Unknown(ep) /\ clear_stall(ep, rc)) => RejectedUnknown
                /\ \A len \in Lengths :
                      /\ \A borrowed \in BOOLEAN :
                            (Unknown(address_for_in_endpoint(ep))
                             /\ read_nonblocking(ep, len, t, rc, borrowed))
                                => RejectedUnknown
                      /\ (Unknown(address_for_out_endpoint(ep))
                          /\ write_nonblocking(ep, len, t, rc)) => RejectedUnknown]_vars

\* A blocking transfer, a clear_stall and a non-blocking transfer on unknown
\* endpoints have each returned InvalidEndpoint.
C20_Witness ==
    /\ callerPc = "returning"
    /\ call.op \in {"read", "write", "clear_stall"}
    /\ call.result = Err("InvalidEndpoint")
    /\ call.fn = "none"
    /\ \E r \in Requests :
           submit[r] = Err("InvalidEndpoint") /\ leaks[r] = 0 /\ os[r] = "none"

(***************************************************************************)
(* The opened device's maps, selectors and small conversions (C21 - C30).  *)
(***************************************************************************)
\* The keys of MacOsDevice.interfaces.
InterfaceKeys == {i \in IfaceNumbers : interfaces[i].present}

\* C21: while a device is built, once open has returned it, and after any
\* claim, unclaim, transfer or other operation on it, every entry of the
\* endpoint metadata names an interface number that is a key of the
\* interface map, so that the lookup of an endpoint address never meets a
\* missing interface.
C21_MetadataNamesTrackedInterface ==
    /\ \A e \in metadata : e.interface_number \in InterfaceKeys
    /\ (hostPc \in {"opened", "panicked"} /\ DeviceAlive) =>
           /\ InterfaceKeys = 0..(ifIndex - 1)
           /\ \A address \in AddressArgs \cup {e.address : e \in metadata} :
                  resources_for_opened(address) # Err("panic")

\* open returned a device with two interfaces whose endpoints are recorded;
\* an interface was claimed and unclaimed, and data was then written to an
\* endpoint.
C21_Witness ==
    /\ hostPc = "opened"
    /\ \E e, f \in metadata : e.interface_number # f.interface_number
    /\ Cardinality(metadata) > MaxEndpoints
    /\ \E i \in IfaceNumbers : unclaims[i]
    /\ lastOp.op = "write"
    /\ lastOp.result.ok

\* C22: while the Device lives, no operation on it (claim, unclaim,
\* configuration, reset, stall, alternate setting, release of a kernel
\* driver, control or bulk transfer, blocking or not), whether it returns or
\* panics and whether or not the panic is caught, changes
\* the endpoint metadata, the keys of the interface map, which of the
\* interfaces are placeholders, the open state of the OS device, or the
\* thread and its notification sources; the open state of an interface is
\* the one field of the device an operation may write.
C22_MapsFrozenAfterOpen ==
    [][(DeviceAlive /\ DeviceAlive') =>
          /\ metadata' = metadata
          /\ InterfaceKeys' = InterfaceKeys
          /\ \A i \in IfaceNumbers : interfaces'[i].deny_all = interfaces[i].deny_all
          /\ deviceOpened' = deviceOpened
          /\ threadsSpawned' = threadsSpawned
          /\ sources' = sources
          /\ ifIndex' = ifIndex]_vars

\* An interface has been claimed and unclaimed, a transfer has followed, and
\* the device has its endpoints recorded.
C22_Witness ==
    /\ hostPc = "opened"
    /\ lastOp.op \in {"read", "write", "read_nonblocking", "write_nonblocking",
                      "control_read", "control_write", "control_read_nonblocking",
                      "control_write_nonblocking"}
    /\ lastOp.result.ok
    /\ \E i \in IfaceNumbers : unclaims[i]
    /\ metadata # {}

NothingSet == [product_id |-> None, serial |-> None, vendor_id |-> None]

\* C23: a selector with none of vendor_id, product_id and serial set matches
\* every device: DeviceSelector::matches returns true for it, whatever the
\* device's identifiers and whether or not it has a serial.
C23_EmptySelectorMatchesAll ==
    (Applied("matches") /\ applied.input.selector = NothingSet)
        => applied.output = TRUE

C23_Witness ==
    /\ Applied("matches")
    /\ applied.input.selector = NothingSet
    /\ applied.input.device.serial = None
    /\ applied.output = TRUE

\* A set identifier agrees with the device's; a set serial agrees with the
\* device's serial, which a device without a serial never does.
IdAgrees(wanted, found) == wanted = None \/ wanted = Some(found)
SerialAgrees(wanted, found) == wanted = None \/ (found # None /\ wanted[1] = found[1])
Agrees(selector, device) ==
    /\ IdAgrees(selector.vendor_id, device.vendor_id)
    /\ IdAgrees(selector.product_id, device.product_id)
    /\ SerialAgrees(selector.serial, device.serial)

\* C24: DeviceSelector::matches returns true exactly when every field the
\* selector sets agrees with the device, and false as soon as one set field
\* differs; a set serial against a device without a serial differs.
C24_MatchesIffSetFieldsAgree ==
    Applied("matches") =>
        /\ applied.output = Agrees(applied.input.selector, applied.input.device)
        /\ (applied.input.selector.serial # None /\ applied.input.device.serial = None)
               => applied.output = FALSE

C24_Witness ==
    /\ Applied("matches")
    /\ applied.input.selector.vendor_id = Some(applied.input.device.vendor_id)
    /\ applied.input.selector.product_id = None
    /\ applied.input.selector.serial # None
    /\ applied.input.device.serial = None
    /\ applied.output = FALSE

\* The positions of the backend's list whose device the selector matches.
MatchingAt(list, selector) == {i \in 1..Len(list) : matches(selector, list[i])}
Least(S) == CHOOSE i \in S : \A j \in S : i <= j

\* C25: Host::device returns the first device, in the backend's enumeration
\* order, that the selector matches, and DeviceNotFound when none matches;
\* Host::devices returns the matching devices, only those, in enumeration
\* order; an error of the backend's enumeration is returned unchanged by both.
C25_FirstMatchAndAllMatches ==
    /\ (Applied("device") /\ applied.input.answer.ok) =>
          IF MatchingAt(applied.input.answer.value, applied.input.selector) = {}
          THEN applied.output = Err("DeviceNotFound")
          ELSE applied.output =
                 Ok(applied.input.answer.value[
                      Least(MatchingAt(applied.input.answer.value, applied.input.selector))])
    /\ (Applied("devices") /\ applied.input.answer.ok) =>
          /\ applied.output.ok
          /\ \E at \in [1..Len(applied.output.value) -> 1..Len(applied.input.answer.value)] :
                /\ \A i, j \in DOMAIN at : i < j => at[i] < at[j]
                /\ {at[i] : i \in DOMAIN at}
                     = MatchingAt(applied.input.answer.value, applied.input.selector)
                /\ \A i \in DOMAIN at :
                      applied.output.value[i] = applied.input.answer.value[at[i]]
    /\ ((Applied("device") \/ Applied("devices")) /\ ~applied.input.answer.ok) =>
          applied.output = applied.input.answer

\* Two different devices match and Host::device gave the first of them.
C25_Witness ==
    /\ Applied("device")
    /\ applied.input.answer.ok
    /\ Len(applied.input.answer.value) = MaxDevices
    /\ applied.input.answer.value[1] # applied.input.answer.value[MaxDevices]
    /\ MatchingAt(applied.input.answer.value, applied.input.selector) = {1, MaxDevices}
    /\ applied.output = Ok(applied.input.answer.value[1])

\* C26: release_kernel_driver on the macOS backend always returns
\* Error::Unsupported and never Ok, whatever the interface number, makes no
\* OS call and changes nothing of the device.
C26_ReleaseKernelDriverUnsupported ==
    [][(lastOp' # lastOp /\ lastOp'.op = "release_kernel_driver") =>
          /\ lastOp'.result = Err("Unsupported")
          /\ lastOp'.os = "none"
          /\ hostPc' = hostPc
          /\ interfaces' = interfaces
          /\ metadata' = metadata
          /\ osOpen' = osOpen
          /\ deviceOpened' = deviceOpened]_vars

\* The driver of a claimed, open interface was asked to be released.
C26_Witness ==
    /\ lastOp.op = "release_kernel_driver"
    /\ interfaces[lastOp.arg].present
    /\ osOpen[lastOp.arg]
    /\ ~lastOp.result.ok

\* C27: release_kernel_driver_if_possible returns Ok when the backend reports
\* Unsupported, and in every other case returns the backend's result
\* unchanged, success or error.
C27_UnsupportedBecomesOk ==
    Applied("release_kernel_driver_if_possible") =>
        IF ~applied.input.answer.ok /\ applied.input.answer.kind = "Unsupported"
        THEN applied.output.ok
        ELSE applied.output = applied.input.answer

\* The backend could not release the driver, as on macOS, and the caller got Ok.
C27_Witness ==
    /\ Applied("release_kernel_driver_if_possible")
    /\ applied.input.answer = release_result(applied.input.interface)
    /\ applied.output = Ok(0)

\* min(duration in whole milliseconds, 2^32 - 1)
Saturated(timeout) ==
    IF as_millis(timeout)[1] >= Limb THEN U32_MAX ELSE as_millis(timeout)

\* C28: a timeout is translated to whole milliseconds as a 32-bit value that
\* saturates: the result is min(milliseconds, 2^32 - 1), not the milliseconds
\* wrapped modulo 2^32, and a longer timeout never gives a smaller result.
C28_TimeoutSaturates ==
    Applied("to_iokit_timeout") =>
        /\ \A i \in {1, 2} :
              /\ applied.output[i] = Saturated(applied.input[i])
              /\ applied.output[i][1] < Limb
              /\ applied.output[i][2] < Limb
        /\ WideLeq(applied.output[1], applied.output[2])

\* The longer timeout is exactly 2^32 ms, which wraps to 0, and the shorter
\* one is one millisecond less, the largest value that fits.
C28_Witness ==
    /\ Applied("to_iokit_timeout")
    /\ as_millis(applied.input[1]) = U32_MAX
    /\ as_millis(applied.input[2]) = <<Limb, 0>>
    /\ applied.output = <<U32_MAX, U32_MAX>>

\* C29: the byte of a RequestType has the direction in bit 7, the type in
\* bits 6-5 and the recipient in bits 4-0, for every combination of the
\* three; two different RequestTypes never give the same byte.
C29_RequestTypeByteLayout ==
    Applied("request_type_to_u8") =>
        /\ \A i \in {1, 2} :
              /\ applied.output[i] \in 0..255
              /\ applied.output[i] \div 128 = DirectionAsU8[applied.input[i].direction]
              /\ (applied.output[i] \div 32) % 4 = TypeAsU8[applied.input[i].request_type]
              /\ applied.output[i] % 32 = RecipientAsU8[applied.input[i].recipient]
        /\ applied.input[1] # applied.input[2] => applied.output[1] # applied.output[2]

\* A vendor request from an endpoint to the host is 0xC2, and differs from
\* the byte of the same request in the other direction.
C29_Witness ==
    /\ Applied("request_type_to_u8")
    /\ applied.input[1] = [direction |-> "In", recipient |-> "Endpoint", request_type |-> "Vendor"]
    /\ applied.input[2] = [direction |-> "Out", recipient |-> "Endpoint", request_type |-> "Vendor"]
    /\ applied.output = <<194, 66>>

\* The last operation was one on the placeholder of a refused interface.
OnPlaceholder ==
    /\ lastOp.op \in {"claim_interface", "unclaim_interface", "set_alternate_setting"}
    /\ interfaces[lastOp.arg].present
    /\ interfaces[lastOp.arg].deny_all

\* C30: every operation on a permission-denied placeholder fails with
\* PermissionDenied and none reaches the OS through its null interface
\* pointer: claim, unclaim and set_alternate_setting on it return
\* PermissionDenied without an OS call, and dropping the device that holds it
\* makes no call through the null pointer.
C30_PlaceholderDeniesEverything ==
    /\ OnPlaceholder => (lastOp.result = Err("PermissionDenied") /\ lastOp.os = "none")
    /\ lastOp.op = "drop" => lastOp.os # "null"
    /\ PlaceholderHeld => hostPc \notin {"crashed", "panicked"}

(***************************************************************************)
(* The event loop, OS handles and the remaining contracts (C31 - C40).     *)
(***************************************************************************)
\* open has not returned a device: it has not been called, is running, or
\* has failed.
NotOpened == hostPc \in {"idle", "plugin", "device", "source", "iterator",
                         "populate", "failed"}

\* C31: the event-loop thread is spawned by the step with which open returns
\* the device, once, and by no other step: not by an open that fails, dies
\* or retries, and not by an operation on the device that open returned.
\* The thread is given the device's notification source and one per
\* interface of the map.
C31_OneThreadPerSuccessfulOpen ==
    /\ [](threadsSpawned <= 1)
    /\ [](NotOpened => threadsSpawned = 0)
    /\ [](hostPc = "opened" => threadsSpawned = 1)
    /\ [](threadsSpawned = 1 => sources = 1 + Cardinality(InterfaceKeys))
    /\ [][threadsSpawned' = threadsSpawned
                              + (IF hostPc = "populate" /\ hostPc' = "opened"
                                 THEN 1 ELSE 0)]_vars
    /\ [][(OpenRunning /\ hostPc' \in {"failed", "crashed", "panicked"})
            => threadsSpawned' = 0]_vars

\* Open succeeded on a later attempt, for a device with MaxIfaces
\* interfaces; an interface of it was claimed and unclaimed, and a transfer
\* was then submitted.
C31_Witness ==
    /\ hostPc = "opened"
    /\ threadsSpawned = 1
    /\ attempts > 1
    /\ Cardinality(InterfaceKeys) = MaxIfaces
    /\ sources = 1 + MaxIfaces
    /\ \E i \in IfaceNumbers : unclaims[i]
    /\ lastOp.op = "read_nonblocking"
    /\ lastOp.result.ok

\* C32: when open returns the device, no interface of it is open at the OS:
\* the open that populate_endpoint_metadata made to read the endpoint
\* properties has been undone by a close.
C32_TemporaryOpenUndone ==
    (hostPc = "opened" /\ lastOp.op = "open") => \A i \in IfaceNumbers : ~osOpen[i]

\* C33: every handle the device iterator gave out during enumeration and
\* during the device search of open is released exactly once, the handles of
\* devices that are skipped or do not match included.
C33_HandlesReleasedOnce ==
    (Applied("enumerate_devices") \/ Applied("open_usb_device")) =>
        \A k \in DOMAIN applied.output : applied.output[k] = 1

\* C34: the async form of a transfer whose submission failed returns the
\* submission's error and hands out no future, and the callback that would
\* complete the future's shared state is never invoked; the async form of an
\* accepted submission returns the future.  A submission that panics returns
\* nothing: no future, nothing at the OS, and its callback is never invoked.
C34_FutureOnlyWhenSubmitted ==
    /\ \A r \in Requests :
        submit[r] # NoResult =>
            /\ async_form(submit[r]).future <=> submit[r].ok
            /\ ~submit[r].ok =>
                  /\ async_form(submit[r]).result = submit[r]
                  /\ cbCount[r] = 0
                  /\ os[r] = "none"
    /\ callerPc = "panicked" =>
           /\ submit[call.req] = NoResult
           /\ cbCount[call.req] = 0
           /\ os[call.req] = "none"
           /\ leaks[call.req] = 0

\* The OS rejected one submission after its callback was packaged, accepted
\* and completed another, and the event loop has since exited.
C34_Witness ==
    \E r, q \in Requests :
        /\ submit[r] # NoResult /\ ~submit[r].ok /\ leaks[r] = 1 /\ cbCount[r] = 0
        /\ submit[q].ok /\ submit[q] # NoResult /\ cbCount[q] = 1
        /\ loopPc = "exited"

\* C35: once the device's OS device and interface objects have been closed
\* and released, the event-loop thread is not inside a run-loop slice and
\* dispatches no callback.
C35_NoSliceAfterRelease ==
    /\ devState = "released" => loopPc # "slice"
    /\ \A r \in Requests : cbDevState[r] # "released"

\* C36: for as long as the OS holds the raw pointer to the buffer of a
\* non-blocking transfer, the backend holds its reference to the buffer and
\* its exclusive borrow of it, so that the buffer is alive and out of the
\* caller's reach until the completion callback has been invoked.
C36_BufferHeldUntilCompletion ==
    \A r \in Requests : os_holds_pointer(r) => backend_holds_buffer(r)

\* The direction of the endpoint whose pipe reference is p.
PipeOfIn(p) ==
    \E a \in DOMAIN endpoint_metadata : endpoint_metadata[a].pipe_ref = p /\ a >= IN_BIT
PipeOfOut(p) ==
    \E a \in DOMAIN endpoint_metadata : endpoint_metadata[a].pipe_ref = p /\ a < IN_BIT

\* C37: for every endpoint argument 0..255, the pipe that write and
\* write_nonblocking transfer on is that of an OUT endpoint, and the pipe
\* that read and read_nonblocking transfer on is that of an IN endpoint.
C37_PipeDirectionMatches ==
    /\ (Applied("resources_for_out_endpoint") /\ applied.output.ok) =>
           PipeOfOut(applied.output.value)
    /\ (Applied("resources_for_in_endpoint") /\ applied.output.ok) =>
           PipeOfIn(applied.output.value)

\* The completion callback has not yet taken the waker.
WakerNotYetTaken == completePc \in {"idle", "lock", "locked", "stored"}

\* C38: the stored waker is the one of the most recent Pending poll (none
\* before the first); the completion invokes only that waker, once, so a
\* waker replaced by a later poll is never invoked; no waker is invoked when
\* the completion comes before the first poll; and no waker stays stored
\* once the completion has returned.
C38_OnlyLatestWakerInvokedOnce ==
    /\ WakerNotYetTaken => waker = lastPendingWaker
    /\ \A w \in Wakers :
           wakeCount[w] > 0 =>
               /\ wakeCount[w] = 1
               /\ w = lastPendingWaker
               /\ completePc = "done"
    /\ (completePc = "done" /\ lastPendingWaker = 0) =>
           \A w \in Wakers : wakeCount[w] = 0
    /\ completePc = "done" => waker = 0

\* Three Pending polls (two of them spurious, so up to two wakers were
\* replaced), then the completion: it invoked the waker of the last poll
\* once and no other, and nothing is stored any more.
C38_Witness ==
    /\ pollLog = <<"Pending", "Pending", "Pending">>
    /\ completePc = "done"
    /\ lastPendingWaker = 2
    /\ wakeCount[2] = 1
    /\ wakeCount[1] = 0
    /\ waker = 0

\* `self.result = Some(result); self.pending = false;` has run.
CompletionHappened == completePc \in {"stored", "done"}

\* C39: pending is true exactly when no completion has happened; while it is
\* true the result is absent; after the completion the result is present (the
\* value the completion stored) until the first poll that returns Ready, and
\* absent from then on.
C39_PendingAndResultAgree ==
    /\ pending <=> ~CompletionHappened
    /\ pending => result = NoResult
    /\ (~pending /\ ReadyPolls = {}) => (result # NoResult /\ result = completeArg)
    /\ ReadyPolls # {} => (~pending /\ result = NoResult)

\* A Pending poll, the completion, the Ready poll that took the result, and a
\* further poll that found it absent.
C39_Witness ==
    /\ pollLog = <<"Pending", "Ready", "Panic">>
    /\ ~pending
    /\ result = NoResult
    /\ readyValue = Ok(SomeLength)
    /\ completePc = "done"

\* What the claim says of an operation on an interface number without an
\* entry in the device's interface map: the error, no OS call, and every
\* interface as it was.
RejectedMissing(op, interface, error) ==
    /\ lastOp'.op = op
    /\ lastOp'.arg = interface
    /\ lastOp'.result = Err(error)
    /\ lastOp'.os = "none"
    /\ interfaces' = interfaces
    /\ osOpen' = osOpen
    /\ claimOpens' = claimOpens
    /\ closeCalls' = closeCalls
    /\ hostPc' = hostPc

\* C40: claim_interface and unclaim_interface with an interface number that
\* is not in the interface map return InvalidArgument, set_alternate_setting
\* with such a number returns InvalidInterface, and none of them calls the OS
\* or changes the open state of an interface.
C40_MissingInterfaceRejected ==
    [][\A interface \in IfaceNumbers, rc \in InterfaceCodes :
          interface \notin InterfaceKeys =>
              /\ claim_interface(interface, rc) =>
                     RejectedMissing("claim_interface", interface, "InvalidArgument")
              /\ unclaim_interface(interface, rc) =>
                     RejectedMissing("unclaim_interface", interface, "InvalidArgument")
              /\ set_alternate_setting(interface, rc) =>
                     RejectedMissing("set_alternate_setting", interface,
                                     "InvalidInterface")]_vars

\* set_alternate_setting was refused for a number outside the map while
\* another interface is open at the OS.
C40_Witness ==
    /\ hostPc = "opened"
    /\ lastOp.op = "set_alternate_setting"
    /\ lastOp.arg \notin InterfaceKeys
    /\ lastOp.result = Err("InvalidInterface")
    /\ lastOp.os = "none"
    /\ \E i \in InterfaceKeys : osOpen[i]

=============================================================================
